---- MODULE Spec2Model ----
(***************************************************************************)
(* State-machine model of DoctorAssistantBot:                              *)
(*   - InMemoryChatStoreNew      the per-user conversation store           *)
(*   - DoctorDetailService       slot lookup, booking, recommendations     *)
(*   - CompletionApiServiceWithDB  tool dispatch table and dialogue loop   *)
(*                                                                         *)
(* Python dicts are records whose DOMAIN is the set of keys present, so a  *)
(* key that is absent and a key bound to None are different things, as in  *)
(* the code.  Python's None is the sentinel string None.                   *)
(***************************************************************************)
EXTENDS Integers, Sequences, FiniteSets, TLC

VARIABLES
    user_history,   \* InMemoryChatStoreNew._user_history: user id -> list of messages
    slot_booked,    \* Time_Slots.is_booked of every slot row, as committed in the database
    patients,       \* the committed rows of table Patient, in booking_id order
    rec_req,        \* arguments of the recommend_alternatives call under examination
    rec_out,        \* its outcome: not called yet, a returned list, or a raised exception
    tool_req,       \* the FUNCTION_MAP call under examination: name, arguments, database state
    tool_out,       \* its outcome: not called yet, or what the service did and what the handler returned
    store_call,     \* the last call of a store method: its name, arguments and returned value
    same_list,      \* pairs of users whose stored history is one and the same list object
    bk_pc,          \* per tool call: where the book_appointment handler stands
    bk_args,        \* per tool call: the argument dict the handler was called with
    bk_sess,        \* per tool call: its AsyncSession (open flag, loaded slot, pending changes)
    bk_out,         \* per tool call: the raised exception while unwinding, then the value returned
    turn_pc,        \* per turn: where process_chat / _call_openai stands
    turn_user,      \* per turn: request.userid
    turn_msg,       \* per turn: assistant_message of the current loop iteration
    turn_idx,       \* per turn: position of the for loop in assistant_message["tool_calls"]
    turn_result,    \* per turn: result of the handler call not yet appended
    turn_ret,       \* per turn: the value process_chat returns
    turn_events,    \* per turn: what the turn did so far, in order (observation only)
    OPENAI_API_KEY, \* whether the module-level key is set (fixed at import)
    model_calls     \* number of model responses consumed so far

storeVars == <<user_history>>
dbVars == <<slot_booked, patients>>
recVars == <<rec_req, rec_out>>
toolVars == <<tool_req, tool_out>>
callVars == <<store_call, same_list>>
bkVars == <<bk_pc, bk_args, bk_sess, bk_out>>
turnVars == <<turn_pc, turn_user, turn_msg, turn_idx, turn_result, turn_ret, turn_events, OPENAI_API_KEY,
              model_calls>>
vars == <<user_history, slot_booked, patients, rec_req, rec_out, tool_req, tool_out, store_call, same_list,
          bk_pc, bk_args, bk_sess, bk_out,
          turn_pc, turn_user, turn_msg, turn_idx, turn_result, turn_ret, turn_events, OPENAI_API_KEY,
          model_calls>>

\* the parts of the state a specification does not use
NoRecommendation == rec_req = <<>> /\ rec_out = <<>>
NoToolCall == tool_req = <<>> /\ tool_out = <<>>
NoStoreCall == store_call = <<>> /\ same_list = {}
NoBooking == bk_pc = <<>> /\ bk_args = <<>> /\ bk_sess = <<>> /\ bk_out = <<>>
NoTurn ==
    /\ turn_pc = <<>> /\ turn_user = <<>> /\ turn_msg = <<>> /\ turn_idx = <<>>
    /\ turn_result = <<>> /\ turn_ret = <<>> /\ turn_events = <<>> /\ OPENAI_API_KEY = TRUE
    /\ model_calls = 0

None == "<None>"

\* dict.get(key, default)
Get(d, k, default) == IF k \in DOMAIN d THEN d[k] ELSE default

(***************************************************************************)
(* Bounds of the model                                                     *)
(***************************************************************************)
MaxHist == 2        \* longest history the store actions build
MaxMsgs == 2        \* longest list handed to set_messages

(***************************************************************************)
(* InMemoryChatStoreNew                                                    *)
(***************************************************************************)
Users == {"u1", "u2"}

SYSTEM_PROMPT == "You are an AI assistant for Super Clinic."

SystemMessage == [role |-> "system", content |-> SYSTEM_PROMPT]

\* Messages callers hand to add_message / set_messages.  The pool holds the
\* fixed system instruction, a message with role 'system' and another
\* content, an ordinary message, and a dict without a 'role' key.
MessagePool ==
    { SystemMessage,
      [role |-> "system", content |-> "You are a pirate."],
      [role |-> "user", content |-> "hello"],
      [content |-> "no role"] }

RECURSIVE SeqsUpTo(_, _)
SeqsUpTo(S, n) ==
    IF n = 0 THEN { <<>> }
    ELSE LET shorter == SeqsUpTo(S, n - 1)
         IN  shorter \cup { Append(s, x) : s \in { t \in shorter : Len(t) = n - 1 }, x \in S }

MessageLists == SeqsUpTo(MessagePool, MaxMsgs)

\* The 'messages' argument of set_messages: None, or a list of messages
NoneList == [is_none |-> TRUE, items |-> <<>>]
ListOf(l) == [is_none |-> FALSE, items |-> l]
MessageArgs == {NoneList} \cup { ListOf(l) : l \in MessageLists }

\* "user_id in cls._user_history"
has_user(h, u) == u \in DOMAIN h

\* ensure_user: create the entry seeded with the system prompt when absent
ensure_user(h, u) ==
    IF u \notin DOMAIN h
    THEN [x \in DOMAIN h \cup {u} |-> IF x = u THEN <<SystemMessage>> ELSE h[x]]
    ELSE h

\* add_message: ensure_user, then append
add_message(h, u, m) ==
    LET e == ensure_user(h, u)
    IN  [e EXCEPT ![u] = Append(e[u], m)]

\* get_messages: the stored list, or [] for an unknown user
get_messages(h, u) == IF u \in DOMAIN h THEN h[u] ELSE <<>>

\* The test set_messages applies to the head of a non-empty list.
\* The code compares only the role of messages[0].
StartsWithSystem(messages) == Get(messages[1], "role", None) = "system"

\* a set_messages that extends the stored history instead of replacing it
set_messages_Extend(h, u, messages) ==
    LET given == IF messages.is_none THEN <<>> ELSE messages.items
    IN  [x \in DOMAIN h \cup {u} |->
            IF x = u THEN (IF u \in DOMAIN h THEN h[u] ELSE <<SystemMessage>>) \o given ELSE h[x]]

\* set_messages: "not messages" covers None and the empty list
set_messages(h, u, messages) ==
    LET stored ==
          IF messages.is_none \/ messages.items = <<>>
          THEN <<SystemMessage>>
          ELSE IF Len(messages.items) = 0 \/ ~StartsWithSystem(messages.items)
               THEN <<SystemMessage>> \o messages.items
               ELSE messages.items
    IN  [x \in DOMAIN h \cup {u} |-> IF x = u THEN stored ELSE h[x]]

\* clear_user_messages: the store afterwards and the value returned
clear_user_messages(h, u) ==
    IF u \in DOMAIN h
    THEN [store |-> [x \in DOMAIN h \ {u} |-> h[x]], ret |-> TRUE]
    ELSE [store |-> h, ret |-> FALSE]

EmptyStore == [x \in {} |-> <<>>]

----------------------------------------------------------------------------
(***************************************************************************)
(* SpecStore: the store driven by arbitrary callers                        *)
(***************************************************************************)
InitStore ==
    /\ user_history = EmptyStore
    /\ slot_booked = <<>>
    /\ patients = <<>>
    /\ NoRecommendation /\ NoToolCall /\ NoStoreCall /\ NoBooking /\ NoTurn

\* a call of a store method as its caller sees it
StoreCall(op, user_id, args, ret) == [op |-> op, user_id |-> user_id, args |-> args, ret |-> ret]

\* The store keeps the list object it is given (set_messages, line 170)
\* and hands out the list object it keeps (get_messages, line 150), so two
\* users can come to hold the same list.  SameList(u) are the users whose
\* stored list is the object stored for u; Apart(u) is the relation once u
\* holds an object of its own, or none.
SameList(u) == {u} \cup { v \in Users : {u, v} \in same_list }
Apart(u) == { p \in same_list : u \notin p }

EnsureUser(u) ==
    /\ user_history' = ensure_user(user_history, u)
    /\ store_call' = StoreCall("ensure_user", u, <<>>, None)
    /\ UNCHANGED <<same_list, dbVars, recVars, toolVars, bkVars, turnVars>>

\* list.append works on the object, so every user holding it sees the message
AddMessage(u, m) ==
    /\ Len(get_messages(user_history, u)) < MaxHist
    /\ \E e \in {add_message(user_history, u, m)} :
          user_history' = [x \in DOMAIN e |-> IF x \in SameList(u) THEN e[u] ELSE e[x]]
    /\ store_call' = StoreCall("add_message", u, <<m>>, None)
    /\ UNCHANGED <<same_list, dbVars, recVars, toolVars, bkVars, turnVars>>

\* a get_messages that creates the entry of an unknown user, as ensure_user does
GetMessages_Creating(u) ==
    /\ user_history' = ensure_user(user_history, u)
    /\ store_call' = StoreCall("get_messages", u, <<>>, get_messages(user_history', u))
    /\ UNCHANGED <<same_list, dbVars, recVars, toolVars, bkVars, turnVars>>

GetMessages(u) ==
    /\ store_call' = StoreCall("get_messages", u, <<>>, get_messages(user_history, u))
    /\ UNCHANGED <<storeVars, same_list, dbVars, recVars, toolVars, bkVars, turnVars>>

\* set_messages with a list the caller has built (or None)
SetMessages(u, messages) ==
    /\ user_history' = set_messages(user_history, u, messages)
    /\ store_call' = StoreCall("set_messages", u, <<messages>>, None)
    /\ same_list' = Apart(u)
    /\ UNCHANGED <<dbVars, recVars, toolVars, bkVars, turnVars>>

\* set_messages(u, get_messages(v)): the caller hands over the list it read
\* for user v, as _call_openai does with v = u.  The list is stored as it
\* is when its first message has role 'system' (line 170); otherwise line
\* 169 builds a new list.
SetMessagesRead(u, v) ==
    /\ v \in DOMAIN user_history
    /\ user_history' = set_messages(user_history, u, ListOf(user_history[v]))
    /\ store_call' = StoreCall("set_messages", u, <<ListOf(user_history[v])>>, None)
    /\ same_list' = IF ~StartsWithSystem(user_history[v]) THEN Apart(u)
                    ELSE IF v \in SameList(u) THEN same_list
                    ELSE Apart(u) \cup { {u, w} : w \in SameList(v) }
    /\ UNCHANGED <<dbVars, recVars, toolVars, bkVars, turnVars>>

ClearUserMessages(u) ==
    /\ user_history' = clear_user_messages(user_history, u).store
    /\ store_call' = StoreCall("clear_user_messages", u, <<>>, clear_user_messages(user_history, u).ret)
    /\ same_list' = Apart(u)
    /\ UNCHANGED <<dbVars, recVars, toolVars, bkVars, turnVars>>

HasUser(u) ==
    /\ store_call' = StoreCall("has_user", u, <<>>, has_user(user_history, u))
    /\ UNCHANGED <<storeVars, same_list, dbVars, recVars, toolVars, bkVars, turnVars>>

NextStore ==
    \/ \E u \in Users : EnsureUser(u)
    \/ \E u \in Users, m \in MessagePool : AddMessage(u, m)
    \/ \E u \in Users : GetMessages(u)
    \/ \E u \in Users, messages \in MessageArgs : SetMessages(u, messages)
    \/ \E u \in Users, v \in Users : SetMessagesRead(u, v)
    \/ \E u \in Users : ClearUserMessages(u)
    \/ \E u \in Users : HasUser(u)

SpecStore == InitStore /\ [][NextStore]_vars

----------------------------------------------------------------------------
\* C1: whenever a history is stored for a user, its first message is the
\* fixed system instruction (role 'system' with content SYSTEM_PROMPT),
\* after any sequence of add_message, set_messages and clear_user_messages.
C1_FirstIsSystemPrompt ==
    \A u \in DOMAIN user_history :
        /\ Len(user_history[u]) >= 1
        /\ user_history[u][1] = SystemMessage

\* the call a step of SpecStore makes is the one recorded after it
Called(op) == store_call'.op = op

Reads(h, u) == IF u \in DOMAIN h THEN h[u] ELSE <<>>

\* a get_messages step returns the current history, or the empty sequence
\* for an unknown user, and leaves the store as it was
ReadIsPure ==
    Called("get_messages") =>
        /\ store_call'.ret = Reads(user_history, store_call'.user_id)
        /\ user_history' = user_history

\* what a read of a user yields changes only by a call of one of ops
ReadsChangeOnlyBy(ops) ==
    \A u \in Users :
        Reads(user_history', u) # Reads(user_history, u) => store_call'.op \in ops

ClearRemoves ==
    Called("clear_user_messages") =>
        /\ store_call'.user_id \notin DOMAIN user_history'
        /\ store_call'.ret = (store_call'.user_id \in DOMAIN user_history)

\* while user u has no history, reads say so, and the history comes back
\* only by one of ops for u, and then with first(h) as its first message
GoneUntilRecreated(ops, first(_)) ==
    \A u \in Users \ DOMAIN user_history :
        /\ (Called("get_messages") /\ store_call'.user_id = u) => store_call'.ret = <<>>
        /\ (Called("has_user") /\ store_call'.user_id = u) => store_call'.ret = FALSE
        /\ u \in DOMAIN user_history' =>
              /\ store_call'.user_id = u /\ store_call'.op \in ops
              /\ first(user_history'[u])

SeededWithSystem(h) == Len(h) >= 1 /\ h[1] = SystemMessage

\* C19: clear_user_messages removes the whole history of the user and
\* returns True exactly when a history existed before the call; from then
\* on get_messages returns the empty sequence and has_user is False, until
\* an add_message or set_messages for the user re-creates the history, which
\* then starts with the system instruction.
C19_ClearedUntilRecreated ==
    [][ClearRemoves /\ GoneUntilRecreated({"add_message", "set_messages"}, SeededWithSystem)]_vars

----------------------------------------------------------------------------
(***************************************************************************)
(* The database (EntityClasses.py).  Doctors, specialities, availabilities *)
(* and the time window of each slot are never written by the service, so   *)
(* they are fixed tables; the booked flag of a slot and the Patient table  *)
(* are state.  A date is a day number, a time of day is minutes after      *)
(* midnight.  Doctor.name carries no unique constraint: doctors 4 and 5    *)
(* share a name.  An availability is one row per (doctor, date).           *)
(***************************************************************************)
Speciality == [i \in 1..2 |-> IF i = 1 THEN "Cardiology" ELSE "Dermatology"]

Doctor ==
    <<  [doctor_id |-> 1, name |-> "Dr. Rao",  speciality_id |-> 1],
        [doctor_id |-> 2, name |-> "Dr. Sen",  speciality_id |-> 1],
        [doctor_id |-> 3, name |-> "Dr. Das",  speciality_id |-> 2],
        [doctor_id |-> 4, name |-> "Dr. Twin", speciality_id |-> 1],
        [doctor_id |-> 5, name |-> "Dr. Twin", speciality_id |-> 2] >>

DoctorAvailability ==
    <<  [availability_id |-> 1, doctor_id |-> 1, available_date |-> 5],
        [availability_id |-> 2, doctor_id |-> 2, available_date |-> 5],
        [availability_id |-> 3, doctor_id |-> 1, available_date |-> 7],
        [availability_id |-> 4, doctor_id |-> 2, available_date |-> 6],
        [availability_id |-> 5, doctor_id |-> 3, available_date |-> 5],
        [availability_id |-> 6, doctor_id |-> 4, available_date |-> 6] >>

\* Rows of Time_Slots without the booked flag.  Slot ids are not in start
\* order, so that ORDER BY start_time and primary-key order differ.
TimeSlots ==
    <<  [slot_id |-> 1,  availability_id |-> 1, start_time |-> 600, end_time |-> 630],
        [slot_id |-> 2,  availability_id |-> 1, start_time |-> 540, end_time |-> 570],
        [slot_id |-> 3,  availability_id |-> 1, start_time |-> 660, end_time |-> 690],
        [slot_id |-> 4,  availability_id |-> 1, start_time |-> 570, end_time |-> 600],
        [slot_id |-> 5,  availability_id |-> 2, start_time |-> 630, end_time |-> 660],
        [slot_id |-> 6,  availability_id |-> 2, start_time |-> 570, end_time |-> 600],
        [slot_id |-> 7,  availability_id |-> 3, start_time |-> 540, end_time |-> 570],
        [slot_id |-> 8,  availability_id |-> 4, start_time |-> 600, end_time |-> 630],
        [slot_id |-> 9,  availability_id |-> 4, start_time |-> 540, end_time |-> 570],
        [slot_id |-> 10, availability_id |-> 6, start_time |-> 540, end_time |-> 570],
        [slot_id |-> 11, availability_id |-> 5, start_time |-> 540, end_time |-> 570] >>

DoctorIds == 1..Len(Doctor)
AvailabilityIds == 1..Len(DoctorAvailability)
SlotIds == 1..Len(TimeSlots)

\* str(date): the ISO form of a day
DateToStr(d) == "2025-01-" \o (IF d < 10 THEN "0" ELSE "") \o ToString(d)

\* datetime.strptime(date, "%Y-%m-%d").date() on the date strings the model
\* uses; strptime accepts one-digit months and days, and raises (None here)
\* on anything that is not year-month-day.
DateInputs == {"2025-01-05", "2025-1-5", "2025-01-06", "2025-01-07", "2025-01-09", "05/01/2025"}

ParseDate(s) ==
    CASE s = "2025-01-05" -> 5
      [] s = "2025-1-5"   -> 5
      [] s = "2025-01-06" -> 6
      [] s = "2025-01-07" -> 7
      [] s = "2025-01-09" -> 9
      [] OTHER            -> 0

DateOk(s) == ParseDate(s) # 0

\* time.strftime("%H:%M:%S")
TimeToStr(t) ==
    LET two(n) == (IF n < 10 THEN "0" ELSE "") \o ToString(n)
    IN  two(t \div 60) \o ":" \o two(t % 60) \o ":00"

(***************************************************************************)
(* Query helpers.  A query without ORDER BY is taken to return its rows in *)
(* primary-key order; ORDER BY is a stable sort of that order.             *)
(***************************************************************************)
RECURSIVE SelectSeq2(_, _)
\* the ids of seq (in order) that are in set S
SelectSeq2(seq, S) ==
    IF seq = <<>> THEN <<>>
    ELSE (IF Head(seq) \in S THEN <<Head(seq)>> ELSE <<>>) \o SelectSeq2(Tail(seq), S)

\* the ids 1..n that are in S, ascending
IdsAscending(n, S) == SelectSeq2([i \in 1..n |-> i], S)

\* Python tuple comparison a <= b on tuples of integers of equal length
RECURSIVE TupleLeq(_, _)
TupleLeq(a, b) ==
    IF a = <<>> THEN TRUE
    ELSE IF Head(a) < Head(b) THEN TRUE
    ELSE IF Head(a) > Head(b) THEN FALSE
    ELSE TupleLeq(Tail(a), Tail(b))

\* insert x behind every element whose key is <= key[x]
RECURSIVE InsertStable(_, _, _)
InsertStable(sorted, x, key) ==
    IF sorted = <<>> THEN <<x>>
    ELSE IF TupleLeq(key[Head(sorted)], key[x])
         THEN <<Head(sorted)>> \o InsertStable(Tail(sorted), x, key)
         ELSE <<x>> \o sorted

\* sorted(seq, key=...): ascending and stable
RECURSIVE SortedBy(_, _)
SortedBy(seq, key) ==
    IF seq = <<>> THEN <<>>
    ELSE InsertStable(SortedBy(SubSeq(seq, 1, Len(seq) - 1), key), seq[Len(seq)], key)

\* seq[:n]
Take(seq, n) == SubSeq(seq, 1, IF Len(seq) < n THEN Len(seq) ELSE n)

RECURSIVE Flatten(_)
Flatten(seqs) == IF seqs = <<>> THEN <<>> ELSE Head(seqs) \o Flatten(Tail(seqs))

\* (mutant) Result.scalars().first(): of several rows the first one
ScalarOneOrNone_First(ids) ==
    IF Len(ids) = 0 THEN [kind |-> "none"]
    ELSE [kind |-> "one", id |-> ids[1]]

\* Result.scalar_one_or_none(): the row, None, or MultipleResultsFound
ScalarOneOrNone(ids) ==
    IF Len(ids) = 0 THEN [kind |-> "none"]
    ELSE IF Len(ids) = 1 THEN [kind |-> "one", id |-> ids[1]]
    ELSE [kind |-> "raise", exc |-> "MultipleResultsFound"]

\* select(Doctor).where(Doctor.name == doctor_name)
DoctorsByName(doctor_name) ==
    IdsAscending(Len(Doctor), { d \in DoctorIds : Doctor[d].name = doctor_name })

\* select(Doctor).where(Doctor.speciality_id == speciality_id)
DoctorsBySpeciality(speciality_id) ==
    IdsAscending(Len(Doctor), { d \in DoctorIds : Doctor[d].speciality_id = speciality_id })

\* select(DoctorAvailability).where(doctor_id == d, available_date == parsed_date)
AvailabilityOf(doctor_id, parsed_date) ==
    IdsAscending(Len(DoctorAvailability),
        { a \in AvailabilityIds : /\ DoctorAvailability[a].doctor_id = doctor_id
                                  /\ DoctorAvailability[a].available_date = parsed_date })

\* (mutant) the slot query without the is_booked filter
OpenSlotsOf_Unfiltered(booked, a) ==
    IdsAscending(Len(TimeSlots), { s \in SlotIds : TimeSlots[s].availability_id = a })

\* select(TimeSlots).where(availability_id == a, is_booked == False)
OpenSlotsOf(booked, a) ==
    IdsAscending(Len(TimeSlots),
        { s \in SlotIds : TimeSlots[s].availability_id = a /\ ~booked[s] })

SlotDoctor(s) == DoctorAvailability[TimeSlots[s].availability_id].doctor_id
SlotDate(s) == DoctorAvailability[TimeSlots[s].availability_id].available_date

\* abs(combine(today, s.start_time) - combine(today, requested_start)), in minutes
Distance(s, requested_start) ==
    LET d == TimeSlots[s].start_time - requested_start
    IN  IF d < 0 THEN 0 - d ELSE d

(***************************************************************************)
(* DoctorDetailService.recommend_alternatives                              *)
(***************************************************************************)
\* the dict built for a slot in tiers 2 and 3
Candidate(s) ==
    [doctor     |-> Doctor[SlotDoctor(s)].name,
     speciality |-> Speciality[Doctor[SlotDoctor(s)].speciality_id],
     date       |-> DateToStr(SlotDate(s)),
     slotId     |-> s,
     start      |-> TimeToStr(TimeSlots[s].start_time),
     end        |-> TimeToStr(TimeSlots[s].end_time)]

\* the dict built in tier 1: the date is the caller's string, unparsed
CandidateSameDoctor(s, doctor_id, date) ==
    [doctor     |-> Doctor[doctor_id].name,
     speciality |-> Speciality[Doctor[doctor_id].speciality_id],
     date       |-> date,
     slotId     |-> s,
     start      |-> TimeToStr(TimeSlots[s].start_time),
     end        |-> TimeToStr(TimeSlots[s].end_time)]

StartKey == [s \in SlotIds |-> <<TimeSlots[s].start_time>>]
DateKey == [a \in AvailabilityIds |-> <<DoctorAvailability[a].available_date>>]
DistanceKey(requested_start) == [s \in SlotIds |-> <<Distance(s, requested_start)>>]
DateStartKey == [s \in SlotIds |-> <<SlotDate(s), TimeSlots[s].start_time>>]

\* (mutant) the tier 1 query filtering on the availability's date only, so
\* that other doctors' slots of that day come back too
SameDoctorSlots_AnyDoctor(booked, a) ==
    SortedBy(IdsAscending(Len(TimeSlots),
                { s \in SlotIds : SlotDate(s) = DoctorAvailability[a].available_date /\ ~booked[s] }),
             StartKey)

\* tier 1 query: open slots of the availability, ORDER BY start_time
SameDoctorSlots(booked, a) == SortedBy(OpenSlotsOf(booked, a), StartKey)

\* (mutant) the ranking with the abs() forgotten
RankByDistance_Signed(slots, requested_start) ==
    Take(SortedBy(slots, [s \in SlotIds |-> <<TimeSlots[s].start_time - requested_start>>]), 3)

\* tiers 1 and 2 ranking: sorted by distance, first three
RankByDistance(slots, requested_start) == Take(SortedBy(slots, DistanceKey(requested_start)), 3)

\* tier 2 query: availabilities of the speciality's doctors on the date, then
\* the open slots of each, concatenated
SpecialtySameDateSlots(booked, doctor_ids, parsed_date) ==
    LET avails == IdsAscending(Len(DoctorAvailability),
                     { a \in AvailabilityIds :
                          /\ DoctorAvailability[a].available_date = parsed_date
                          /\ \E i \in 1..Len(doctor_ids) : DoctorAvailability[a].doctor_id = doctor_ids[i] })
    IN  Flatten([i \in 1..Len(avails) |-> OpenSlotsOf(booked, avails[i])])

\* tier 3 query: availabilities of the speciality's doctors ORDER BY date,
\* the requested date skipped, then the open slots of each, concatenated
FutureSlots(booked, doctor_ids, parsed_date) ==
    LET avails == SortedBy(IdsAscending(Len(DoctorAvailability),
                     { a \in AvailabilityIds :
                          \E i \in 1..Len(doctor_ids) : DoctorAvailability[a].doctor_id = doctor_ids[i] }),
                     DateKey)
        kept   == SelectSeq(avails, LAMBDA a : ~(parsed_date # 0 /\ DoctorAvailability[a].available_date = parsed_date))
    IN  Flatten([i \in 1..Len(kept) |-> OpenSlotsOf(booked, kept[i])])

\* (mutant) the ranking by start time alone
RankByDateStart_StartOnly(slots) == Take(SortedBy(slots, StartKey), 3)

\* tier 3 ranking: sorted by (date, start_time), first three
RankByDateStart(slots) == Take(SortedBy(slots, DateStartKey), 3)

\* The outcome of the call: the list returned (tier names the return
\* statement that produced it, 0 for "doctor not found"), or the exception.
recommend_alternatives(booked, doctor_name, date, start_time) ==
    LET res_doc == ScalarOneOrNone(DoctorsByName(doctor_name))
    IN
    IF res_doc.kind = "raise" THEN res_doc
    ELSE IF res_doc.kind = "none" THEN [kind |-> "return", tier |-> 0, value |-> <<>>]
    ELSE
    LET doctor_id      == res_doc.id
        speciality_id  == Doctor[doctor_id].speciality_id
        parsed_date    == ParseDate(date)
        same_doc_avail == IF parsed_date # 0
                          THEN ScalarOneOrNone(AvailabilityOf(doctor_id, parsed_date))
                          ELSE [kind |-> "none"]
        slots          == IF same_doc_avail.kind = "one"
                          THEN SameDoctorSlots(booked, same_doc_avail.id)
                          ELSE <<>>
        specialty_doctor_ids == DoctorsBySpeciality(speciality_id)
        specialty_same_date_slots ==
                          IF specialty_doctor_ids # <<>> /\ parsed_date # 0
                          THEN SpecialtySameDateSlots(booked, specialty_doctor_ids, parsed_date)
                          ELSE <<>>
        future_slots   == FutureSlots(booked, specialty_doctor_ids, parsed_date)
        tier1          == RankByDistance(slots, start_time)
        tier2          == RankByDistance(specialty_same_date_slots, start_time)
        tier3          == RankByDateStart(future_slots)
    IN
    IF same_doc_avail.kind = "raise" THEN same_doc_avail
    ELSE IF slots # <<>>
    THEN [kind |-> "return", tier |-> 1,
          value |-> [i \in 1..Len(tier1) |-> CandidateSameDoctor(tier1[i], doctor_id, date)]]
    ELSE IF specialty_same_date_slots # <<>>
    THEN [kind |-> "return", tier |-> 2,
          value |-> [i \in 1..Len(tier2) |-> Candidate(tier2[i])]]
    ELSE [kind |-> "return", tier |-> 3,
          value |-> [i \in 1..Len(tier3) |-> Candidate(tier3[i])]]

----------------------------------------------------------------------------
(***************************************************************************)
(* SpecRec: recommend_alternatives called once on an arbitrary calendar    *)
(***************************************************************************)
DoctorNames == {"Dr. Rao", "Dr. Das", "Dr. Twin", "Dr. Who"}
StartTimes == {540, 585, 600, 720}

RecRequests == [doctor_name : DoctorNames, date : DateInputs, start_time : StartTimes]

\* one seed Patient row for every slot that is booked to begin with
SeedPatients(booked) ==
    LET ids == IdsAscending(Len(TimeSlots), { s \in SlotIds : booked[s] })
    IN  [i \in 1..Len(ids) |->
            [booking_id |-> i, user_id |-> "seed", slot_id |-> ids[i],
             name |-> "Seed", email |-> "seed@clinic", phone |-> "000"]]

InitRec ==
    /\ user_history = EmptyStore
    /\ slot_booked \in [SlotIds -> BOOLEAN]
    /\ patients = SeedPatients(slot_booked)
    /\ rec_req \in RecRequests
    /\ rec_out = <<>>
    /\ NoToolCall /\ NoStoreCall /\ NoBooking /\ NoTurn

RecommendCall ==
    /\ rec_out = <<>>
    /\ rec_out' = recommend_alternatives(slot_booked, rec_req.doctor_name, rec_req.date, rec_req.start_time)
    /\ UNCHANGED <<storeVars, dbVars, rec_req, toolVars, callVars, bkVars, turnVars>>

NextRec == RecommendCall

SpecRec == InitRec /\ [][NextRec]_vars

----------------------------------------------------------------------------
(***************************************************************************)
(* Statements about recommend_alternatives, in terms of the tables only    *)
(***************************************************************************)
Returned == rec_out # <<>> /\ rec_out.kind = "return"

\* the doctors carrying the requested name, and the one meant when the name
\* identifies a doctor
NamedDoctors == { d \in DoctorIds : Doctor[d].name = rec_req.doctor_name }
TheDoctor == CHOOSE d \in NamedDoctors : TRUE

RequestedDay == ParseDate(rec_req.date)

OpenSlots == { s \in SlotIds : ~slot_booked[s] }
SameSpeciality(s) == Doctor[SlotDoctor(s)].speciality_id = Doctor[TheDoctor].speciality_id

\* the candidates of the three tiers
Pool1 == { s \in OpenSlots : SlotDoctor(s) = TheDoctor /\ RequestedDay # 0 /\ SlotDate(s) = RequestedDay }
Pool2 == { s \in OpenSlots : SameSpeciality(s) /\ RequestedDay # 0 /\ SlotDate(s) = RequestedDay }
Pool3 == { s \in OpenSlots : SameSpeciality(s) /\ SlotDate(s) # RequestedDay }

ReturnedIds == [i \in 1..Len(rec_out.value) |-> rec_out.value[i].slotId]
ReturnedSet == { ReturnedIds[i] : i \in 1..Len(ReturnedIds) }

Min(a, b) == IF a < b THEN a ELSE b
Gap(s) ==
    IF TimeSlots[s].start_time >= rec_req.start_time
    THEN TimeSlots[s].start_time - rec_req.start_time
    ELSE rec_req.start_time - TimeSlots[s].start_time

\* C5: tiers are exclusive in priority.  When the requested doctor has an
\* open slot on the requested date, only slots of that doctor on that date
\* are returned; a slot of another date is returned only when neither the
\* doctor nor the speciality has an open slot on the requested date; with
\* exactly one open same-doctor same-date slot the output is that slot.
C5_TiersExclusive ==
    (rec_out # <<>> /\ Cardinality(NamedDoctors) = 1) =>
        /\ Pool1 # {} => (Returned /\ ReturnedSet # {} /\ ReturnedSet \subseteq Pool1)
        /\ (Returned /\ ReturnedSet \cap Pool3 # {}) => (Pool1 = {} /\ Pool2 = {})
        /\ Cardinality(Pool1) = 1 =>
              (Returned /\ ReturnedIds = << CHOOSE s \in Pool1 : TRUE >>)

\* a tier-1 answer while another doctor of the speciality also has open
\* slots that day, and while other dates have open slots
C5_Witness ==
    /\ Returned /\ Cardinality(NamedDoctors) = 1
    /\ Cardinality(Pool1) = 1
    /\ Pool2 \ Pool1 # {}
    /\ Pool3 # {}
    /\ Len(rec_out.value) = 1

\* the order in which the tier's query hands the slots to the ranking:
\* tier 1 is ORDER BY start_time, tier 2 goes availability by availability
QueryBefore1(s, t) ==
    \/ TimeSlots[s].start_time < TimeSlots[t].start_time
    \/ TimeSlots[s].start_time = TimeSlots[t].start_time /\ s < t
QueryBefore2(s, t) ==
    \/ TimeSlots[s].availability_id < TimeSlots[t].availability_id
    \/ TimeSlots[s].availability_id = TimeSlots[t].availability_id /\ s < t

\* ids is the list of the (at most 3) slots of pool that are nearest to the
\* requested start, nearest first, equal distances in query order
NearestThree(ids, pool, QBefore(_, _)) ==
    LET Ahead(s, t) == Gap(s) < Gap(t) \/ (Gap(s) = Gap(t) /\ QBefore(s, t))
    IN  /\ Len(ids) = Min(3, Cardinality(pool))
        /\ \A i \in 1..Len(ids) : ids[i] \in pool
        /\ \A i, j \in 1..Len(ids) : i < j => Ahead(ids[i], ids[j])
        /\ \A s \in pool : (\A i \in 1..Len(ids) : ids[i] # s) =>
                               \A i \in 1..Len(ids) : Ahead(ids[i], s)

\* C6: in tiers 1 and 2 at most 3 candidates are returned; they are the
\* open slots with the smallest absolute distance between slot start and
\* requested start, in ascending distance, ties in original slot order.
C6_NearestFirst ==
    (rec_out # <<>> /\ Cardinality(NamedDoctors) = 1 /\ Pool2 # {}) =>
        /\ Returned
        /\ Len(rec_out.value) <= 3
        /\ IF Pool1 # {}
           THEN NearestThree(ReturnedIds, Pool1, QueryBefore1)
           ELSE NearestThree(ReturnedIds, Pool2, QueryBefore2)

\* more than three candidates, two of them equally far from the request
C6_Witness ==
    /\ Returned /\ Cardinality(NamedDoctors) = 1
    /\ Cardinality(Pool1) > 3
    /\ Len(rec_out.value) = 3
    /\ Gap(ReturnedIds[1]) = Gap(ReturnedIds[2])
    /\ Gap(ReturnedIds[2]) < Gap(ReturnedIds[3])

C6_WitnessTier2 ==
    /\ Returned /\ Cardinality(NamedDoctors) = 1
    /\ Pool1 = {} /\ Cardinality(Pool2) >= 2
    /\ Len(rec_out.value) = Cardinality(Pool2)

DateStartBefore(s, t) ==
    \/ SlotDate(s) < SlotDate(t)
    \/ SlotDate(s) = SlotDate(t) /\ TimeSlots[s].start_time <= TimeSlots[t].start_time

\* C7: when tier 3 is reached, at most 3 open slots of doctors of the
\* requested doctor's speciality are returned, none on the requested date,
\* ordered by date and then start time; they are the 3 smallest under that
\* order among the qualifying slots.
C7_FutureDates ==
    (rec_out # <<>> /\ Cardinality(NamedDoctors) = 1 /\ Pool1 = {} /\ Pool2 = {}) =>
        /\ Returned
        /\ Len(ReturnedIds) = Min(3, Cardinality(Pool3))
        /\ \A i \in 1..Len(ReturnedIds) :
              /\ ReturnedIds[i] \in Pool3
              /\ rec_out.value[i].date = DateToStr(SlotDate(ReturnedIds[i]))
              /\ rec_out.value[i].date # rec_req.date
        /\ \A i, j \in 1..Len(ReturnedIds) :
              i < j => ReturnedIds[i] # ReturnedIds[j] /\ DateStartBefore(ReturnedIds[i], ReturnedIds[j])
        /\ \A s \in Pool3 \ ReturnedSet :
              \A i \in 1..Len(ReturnedIds) : DateStartBefore(ReturnedIds[i], s)

\* tier 3 with more than three qualifying slots on two different dates
C7_Witness ==
    /\ Returned /\ Cardinality(NamedDoctors) = 1
    /\ Pool1 = {} /\ Pool2 = {} /\ RequestedDay # 0
    /\ Cardinality(Pool3) > 3
    /\ Len(rec_out.value) = 3
    /\ SlotDate(ReturnedIds[1]) < SlotDate(ReturnedIds[3])

\* C8: the call returns a sequence for every input, and the empty sequence
\* when no doctor has the requested name or no slot qualifies in any tier.
C8_AlwaysReturnsSequence ==
    rec_out # <<>> =>
        /\ rec_out.kind = "return"
        /\ NamedDoctors = {} => rec_out.value = <<>>
        /\ (NamedDoctors # {} /\ Pool1 = {} /\ Pool2 = {} /\ Pool3 = {}) => rec_out.value = <<>>

----------------------------------------------------------------------------
(***************************************************************************)
(* Tool dispatch of book_appointment:                                      *)
(*   FUNCTION_MAP["book_appointment"] -> async_run -> _run_async_db_call   *)
(*   -> _f_book_appointment -> DoctorDetailService.book_appointment        *)
(* Every call runs in an AsyncSession of its own.  What a session changes  *)
(* stays in the session until commit(); commit() flushes the UPDATE of the *)
(* slot and the INSERT of the patient in one database transaction.         *)
(***************************************************************************)
MaxBookings == 2    \* book_appointment calls that may be in flight together

Bookings == 1..MaxBookings

\* _get_arg(d, *keys, default=None): the value of the first key present
RECURSIVE _get_arg(_, _, _)
_get_arg(d, keys, default) ==
    IF keys = <<>> THEN default
    ELSE IF Head(keys) \in DOMAIN d THEN d[Head(keys)]
    ELSE _get_arg(d, Tail(keys), default)

\* the positional arguments the lambda of FUNCTION_MAP["book_appointment"]
\* hands to _f_book_appointment
BookParams(a) ==
    [user_id      |-> _get_arg(a, <<"user_id", "user_id">>, "anonymous"),
     doctor_name  |-> Get(a, "doctor_name", None),
     date         |-> Get(a, "date", None),
     time_range   |-> _get_arg(a, <<"time", "time_range">>, Get(a, "time_range", None)),
     patient_name |-> Get(a, "patient_name", None),
     email        |-> Get(a, "email", None),
     phone        |-> Get(a, "phone", None)]

\* start_str, end_str = time_range.split("-"), then time.fromisoformat of
\* each, on the strings the model uses; anything else raises
ParseTimeRange(time_range) ==
    CASE time_range = "10:00-10:30"       -> [kind |-> "ok", start_time |-> 600, end_time |-> 630]
      [] time_range = "10:00:00-10:30:00" -> [kind |-> "ok", start_time |-> 600, end_time |-> 630]
      [] time_range = "09:00-09:30"       -> [kind |-> "ok", start_time |-> 540, end_time |-> 570]
      [] time_range = None                -> [kind |-> "raise", exc |-> "AttributeError"]
      [] OTHER                            -> [kind |-> "raise", exc |-> "ValueError"]

\* get_slot_id: the slot row, None, or the exception of scalar_one_or_none
get_slot_id(booked, doctor_name, date, start_time, end_time) ==
    LET res_doc == ScalarOneOrNone(DoctorsByName(doctor_name))
    IN
    IF res_doc.kind # "one" THEN res_doc
    ELSE IF ParseDate(date) = 0 THEN [kind |-> "none"]
    ELSE
    LET res_avail == ScalarOneOrNone(AvailabilityOf(res_doc.id, ParseDate(date)))
    IN
    IF res_avail.kind # "one" THEN res_avail
    ELSE ScalarOneOrNone(IdsAscending(Len(TimeSlots),
            { s \in SlotIds : /\ TimeSlots[s].availability_id = res_avail.id
                              /\ TimeSlots[s].start_time = start_time
                              /\ TimeSlots[s].end_time = end_time
                              /\ ~booked[s] }))

\* (mutant) a Patient object that is always filed under the default user id
PatientEntry_Anonymous(p, slot_id) ==
    [user_id |-> "anonymous", name |-> p.patient_name, email |-> p.email,
     phone |-> p.phone, slot_id |-> slot_id]

\* the Patient object book_appointment adds to the session
PatientEntry(p, slot_id) ==
    [user_id |-> p.user_id, name |-> p.patient_name, email |-> p.email,
     phone |-> p.phone, slot_id |-> slot_id]

\* every column of Patient is nullable=False
ViolatesNotNull(row) ==
    \E c \in {"user_id", "name", "email", "phone"} : row[c] = None

\* (mutant) a commit that writes the slot update even when the transaction
\* fails, as the UPDATE would be with autocommit on
CommitDb_SlotOutsideTransaction(booked, rows, sess, ok) ==
    [slot_booked |-> IF sess.dirty_slot # 0
                     THEN [booked EXCEPT ![sess.dirty_slot] = TRUE] ELSE booked,
     patients    |-> IF ok
                     THEN rows \o [i \in 1..Len(sess.pending) |->
                                     sess.pending[i] @@ [booking_id |-> Len(rows) + i]]
                     ELSE rows]

\* the database after session.commit(): the pending UPDATE and INSERT both
\* applied when the transaction commits (ok), neither when it fails
CommitDb(booked, rows, sess, ok) ==
    IF ok
    THEN [slot_booked |-> IF sess.dirty_slot # 0
                          THEN [booked EXCEPT ![sess.dirty_slot] = TRUE] ELSE booked,
          patients    |-> rows \o [i \in 1..Len(sess.pending) |->
                                     sess.pending[i] @@ [booking_id |-> Len(rows) + i]]]
    ELSE [slot_booked |-> booked, patients |-> rows]

\* the payload of _run_async_db_call's except branch
UniformError ==
    [status  |-> "error",
     message |-> "Something went wrong while processing your request. Please try again later."]

\* the value book_appointment returns when no open slot matches
SlotNotAvailable(alternatives) ==
    [status |-> "error", message |-> "Slot not available or already booked",
     alternatives |-> alternatives]

\* the value book_appointment returns after a booking
BookingConfirmation(p, slot_id) ==
    LET d == SlotDoctor(slot_id)
    IN  [status  |-> "success",
         type    |-> "booking_confirmation",
         message |-> "Appointment booked successfully with " \o Doctor[d].name,
         doctor  |-> [doctorId |-> d, doctorName |-> Doctor[d].name,
                      speciality |-> Speciality[Doctor[d].speciality_id]],
         appointment |-> [date |-> p.date, slotId |-> slot_id,
                          time |-> [start |-> TimeToStr(TimeSlots[slot_id].start_time),
                                    end   |-> TimeToStr(TimeSlots[slot_id].end_time)]],
         patient |-> [name |-> p.patient_name, email |-> p.email, phone |-> p.phone]]

ClosedSession == [open |-> FALSE, slot |-> 0, dirty_slot |-> 0, pending |-> <<>>]
OpenSession == [open |-> TRUE, slot |-> 0, dirty_slot |-> 0, pending |-> <<>>]

\* Argument dicts the model (or a direct caller) sends.  A key may be absent.
PatientDetails ==
    { [patient_name |-> "Ann", email |-> "ann@x.org", phone |-> "555"],
      [patient_name |-> "Ann", email |-> "", phone |-> ""],
      [patient_name |-> "Ann", phone |-> "555"] }

BookTargets ==
    { [doctor_name |-> "Dr. Rao", date |-> "2025-01-05", time_range |-> "10:00-10:30", user_id |-> "u1"],
      [doctor_name |-> "Dr. Rao", date |-> "2025-01-05", time |-> "10:00:00-10:30:00"],
      [doctor_name |-> "Dr. Rao", date |-> "05/01/2025", time_range |-> "10:00-10:30", user_id |-> "u2"],
      [doctor_name |-> "Dr. Rao", date |-> "2025-01-05", time_range |-> "10am", user_id |-> "u2"],
      [doctor_name |-> "Dr. Twin", date |-> "2025-01-06", time_range |-> "09:00-09:30", user_id |-> "u2"] }

BookArgs == { t @@ d : t \in BookTargets, d \in PatientDetails }

(***************************************************************************)
(* SpecBook: concurrent book_appointment tool calls on one database        *)
(***************************************************************************)
InitialBooked == [s \in SlotIds |-> s = 3]

InitBook ==
    /\ user_history = EmptyStore
    /\ slot_booked = InitialBooked
    /\ patients = SeedPatients(InitialBooked)
    /\ NoRecommendation /\ NoToolCall /\ NoStoreCall /\ NoTurn
    /\ bk_pc = [b \in Bookings |-> "idle"]
    /\ bk_args = [b \in Bookings |-> <<>>]
    /\ bk_sess = [b \in Bookings |-> ClosedSession]
    /\ bk_out = [b \in Bookings |-> <<>>]

\* FUNCTION_MAP["book_appointment"](**a): the arguments are bound, the
\* session is opened, and book_appointment parses time_range
Dispatch(b, a) ==
    /\ bk_pc[b] = "idle"
    /\ bk_args' = [bk_args EXCEPT ![b] = a]
    /\ bk_sess' = [bk_sess EXCEPT ![b] = OpenSession]
    /\ LET t == ParseTimeRange(BookParams(a).time_range)
       IN  IF t.kind = "raise"
           THEN /\ bk_pc' = [bk_pc EXCEPT ![b] = "raised"]
                /\ bk_out' = [bk_out EXCEPT ![b] = t]
           ELSE /\ bk_pc' = [bk_pc EXCEPT ![b] = "lookup"]
                /\ UNCHANGED bk_out
    /\ UNCHANGED <<storeVars, turnVars, dbVars, recVars, toolVars, callVars>>

\* await self.get_slot_id(...), then, on a hit, slot.is_booked = True and
\* self.db.add(patient_entry): both only in the session
GetSlotId(b) ==
    /\ bk_pc[b] = "lookup"
    /\ LET p == BookParams(bk_args[b])
           t == ParseTimeRange(p.time_range)
           r == get_slot_id(slot_booked, p.doctor_name, p.date, t.start_time, t.end_time)
       IN  CASE r.kind = "raise" ->
                  /\ bk_pc' = [bk_pc EXCEPT ![b] = "raised"]
                  /\ bk_out' = [bk_out EXCEPT ![b] = r]
                  /\ UNCHANGED bk_sess
             [] r.kind = "none" ->
                  /\ bk_pc' = [bk_pc EXCEPT ![b] = "miss"]
                  /\ UNCHANGED <<bk_sess, bk_out>>
             [] r.kind = "one" ->
                  /\ bk_pc' = [bk_pc EXCEPT ![b] = "commit"]
                  /\ bk_sess' = [bk_sess EXCEPT ![b] =
                        [open |-> TRUE, slot |-> r.id, dirty_slot |-> r.id,
                         pending |-> <<PatientEntry(p, r.id)>>]]
                  /\ UNCHANGED bk_out
    /\ UNCHANGED <<storeVars, turnVars, dbVars, recVars, toolVars, callVars, bk_args>>

\* slot is None: await self.recommend_alternatives(...) and return
RecommendOnMiss(b) ==
    /\ bk_pc[b] = "miss"
    /\ LET p == BookParams(bk_args[b])
           t == ParseTimeRange(p.time_range)
           r == recommend_alternatives(slot_booked, p.doctor_name, p.date, t.start_time)
       IN  IF r.kind = "raise"
           THEN /\ bk_pc' = [bk_pc EXCEPT ![b] = "raised"]
                /\ bk_out' = [bk_out EXCEPT ![b] = r]
           ELSE /\ bk_pc' = [bk_pc EXCEPT ![b] = "returned"]
                /\ bk_out' = [bk_out EXCEPT ![b] = SlotNotAvailable(r.value)]
    /\ UNCHANGED <<storeVars, turnVars, dbVars, recVars, toolVars, callVars, bk_args, bk_sess>>

\* await self.db.commit(): fails on a NULL in a NOT NULL column, and may
\* fail for reasons of the connection
Commit(b, ok) ==
    /\ bk_pc[b] = "commit"
    /\ ok => ~ViolatesNotNull(bk_sess[b].pending[1])
    /\ LET db == CommitDb(slot_booked, patients, bk_sess[b], ok)
       IN  /\ slot_booked' = db.slot_booked
           /\ patients' = db.patients
    /\ bk_sess' = [bk_sess EXCEPT ![b].dirty_slot = 0, ![b].pending = <<>>]
    /\ IF ok
       THEN /\ bk_pc' = [bk_pc EXCEPT ![b] = "refresh"]
            /\ UNCHANGED bk_out
       ELSE /\ bk_pc' = [bk_pc EXCEPT ![b] = "raised"]
            /\ bk_out' = [bk_out EXCEPT ![b] =
                  [kind |-> "raise",
                   exc  |-> IF ViolatesNotNull(bk_sess[b].pending[1])
                            THEN "IntegrityError" ELSE "OperationalError"]]
    /\ UNCHANGED <<storeVars, turnVars, recVars, toolVars, callVars, bk_args>>

\* await self.db.refresh(patient_entry); await self.db.refresh(slot); return
Refresh(b, ok) ==
    /\ bk_pc[b] = "refresh"
    /\ IF ok
       THEN /\ bk_pc' = [bk_pc EXCEPT ![b] = "returned"]
            /\ bk_out' = [bk_out EXCEPT ![b] =
                  BookingConfirmation(BookParams(bk_args[b]), bk_sess[b].slot)]
       ELSE /\ bk_pc' = [bk_pc EXCEPT ![b] = "raised"]
            /\ bk_out' = [bk_out EXCEPT ![b] = [kind |-> "raise", exc |-> "OperationalError"]]
    /\ UNCHANGED <<storeVars, turnVars, dbVars, recVars, toolVars, callVars, bk_args, bk_sess>>

\* a SELECT of get_slot_id or recommend_alternatives fails
QueryFails(b) ==
    /\ bk_pc[b] \in {"lookup", "miss"}
    /\ bk_pc' = [bk_pc EXCEPT ![b] = "raised"]
    /\ bk_out' = [bk_out EXCEPT ![b] = [kind |-> "raise", exc |-> "OperationalError"]]
    /\ UNCHANGED <<storeVars, turnVars, dbVars, recVars, toolVars, callVars, bk_args, bk_sess>>

\* (mutant) get_async_session without try/finally: the session is closed
\* after the yield only, so not when the body raised
Exit_NoFinally(b) ==
    /\ bk_pc[b] \in {"returned", "raised"}
    /\ bk_sess' = [bk_sess EXCEPT ![b] = IF bk_pc[b] = "raised" THEN @ ELSE ClosedSession]
    /\ bk_out' = [bk_out EXCEPT ![b] = IF bk_pc[b] = "raised" THEN UniformError ELSE @]
    /\ bk_pc' = [bk_pc EXCEPT ![b] = "done"]
    /\ UNCHANGED <<storeVars, turnVars, dbVars, recVars, toolVars, callVars, bk_args>>

\* leaving "async with get_async_session()": session.close() drops what is
\* pending; an exception becomes the uniform error payload
Exit(b) ==
    /\ bk_pc[b] \in {"returned", "raised"}
    /\ bk_sess' = [bk_sess EXCEPT ![b] = ClosedSession]
    /\ bk_out' = [bk_out EXCEPT ![b] = IF bk_pc[b] = "raised" THEN UniformError ELSE @]
    /\ bk_pc' = [bk_pc EXCEPT ![b] = "done"]
    /\ UNCHANGED <<storeVars, turnVars, dbVars, recVars, toolVars, callVars, bk_args>>

NextBook ==
    \/ \E b \in Bookings, a \in BookArgs : Dispatch(b, a)
    \/ \E b \in Bookings : GetSlotId(b)
    \/ \E b \in Bookings : RecommendOnMiss(b)
    \/ \E b \in Bookings, ok \in BOOLEAN : Commit(b, ok)
    \/ \E b \in Bookings, ok \in BOOLEAN : Refresh(b, ok)
    \/ \E b \in Bookings : QueryFails(b)
    \/ \E b \in Bookings : Exit(b)

SpecBook == InitBook /\ [][NextBook]_vars

----------------------------------------------------------------------------
(***************************************************************************)
(* Statements about booking                                                *)
(***************************************************************************)
RowsOfSlot(s) == { i \in 1..Len(patients) : patients[i].slot_id = s }

Succeeded(b) == bk_pc[b] = "done" /\ bk_out[b].status = "success"

\* the Patient row call b adds (without the generated booking_id)
RowOf(b, s) == PatientEntry(BookParams(bk_args[b]), s)
HasRowOf(b, s) ==
    \E i \in RowsOfSlot(s) : [c \in DOMAIN RowOf(b, s) |-> patients[i][c]] = RowOf(b, s)

\* C2: book_appointment is atomic.  In every state of the database a slot
\* is booked if and only if a patient record is bound to it, whatever step
\* of whichever attempt failed; an attempt that reports success has left
\* both its booked slot and its patient record.
C2_Atomic ==
    /\ \A s \in SlotIds : slot_booked[s] <=> RowsOfSlot(s) # {}
    /\ \A b \in Bookings : Succeeded(b) =>
          /\ slot_booked[bk_out[b].appointment.slotId]
          /\ HasRowOf(b, bk_out[b].appointment.slotId)

\* one attempt failed in commit() and left nothing, another one failed
\* after its commit and left both the booked slot and the record
C2_Witness ==
    \E b, c \in Bookings :
        /\ bk_pc[b] = "raised" /\ bk_out[b].exc = "IntegrityError"
        /\ bk_pc[c] = "done" /\ bk_out[c] = UniformError
        /\ slot_booked[1] /\ HasRowOf(c, 1) /\ ~HasRowOf(b, 1)

\* C3: a slot is bookable at most once.  At most one patient record is
\* ever bound to a slot and at most one call for it returns 'success'.
C3_BookedAtMostOnce ==
    \A s \in SlotIds :
        /\ Cardinality(RowsOfSlot(s)) <= 1
        /\ Cardinality({ b \in Bookings : Succeeded(b) /\ bk_out[b].appointment.slotId = s }) <= 1

\* the required patient fields that are missing or empty in an argument dict
MissingFields(a) ==
    LET absent(k) == Get(a, k, None) \in {None, ""}
    IN  (IF absent("patient_name") THEN <<"name">> ELSE <<>>)
        \o (IF absent("email") THEN <<"email">> ELSE <<>>)
        \o (IF absent("phone") THEN <<"phone">> ELSE <<>>)

MissingDetailsError(fields) ==
    [status |-> "error", message |-> "Missing required patient details.",
     required_fields |-> fields]

\* C4: a book_appointment call dispatched with patient name, email or phone
\* missing or empty does not reach the resolver: it returns the structured
\* error listing exactly the missing fields and books nothing.
C4_RequiredFieldGate ==
    \A b \in Bookings :
        (bk_pc[b] = "done" /\ MissingFields(bk_args[b]) # <<>>) =>
            /\ bk_out[b] = MissingDetailsError(MissingFields(bk_args[b]))
            /\ \A s \in SlotIds : ~HasRowOf(b, s)

----------------------------------------------------------------------------
(***************************************************************************)
(* Tool handlers as the dialogue loop calls them: FUNCTION_MAP[name] is    *)
(* called with the arguments and runs to completion in the calling thread.*)
(***************************************************************************)
\* the keys of FUNCTION_MAP
FunctionNames ==
    {"get_doctors", "filter_doctors", "get_doctor_availability", "book_appointment",
     "recommend_alternatives"}

\* columns email and address of the Doctor rows
DoctorEmail(d) == "doctor" \o ToString(d) \o "@clinic.example"
DoctorAddress(d) == "Room " \o ToString(d)

\* DoctorDetailService.get_doctors: every doctor joined with its speciality
get_doctors ==
    [status  |-> "success",
     type    |-> "doctor_list",
     total   |-> Len(Doctor),
     doctors |-> [d \in DoctorIds |->
                    [doctorId |-> d, doctorName |-> Doctor[d].name,
                     email |-> DoctorEmail(d), address |-> DoctorAddress(d),
                     speciality |-> [id |-> Doctor[d].speciality_id,
                                     name |-> Speciality[Doctor[d].speciality_id]]]]]

\* (mutant) a book_appointment that asks for alternatives to the end of
\* the requested window instead of its start
book_appointment_FromEnd(booked, rows, p) ==
    LET t    == ParseTimeRange(p.time_range)
        same == [slot_booked |-> booked, patients |-> rows]
    IN
    IF t.kind = "raise" THEN same @@ [out |-> t]
    ELSE
    LET r == get_slot_id(booked, p.doctor_name, p.date, t.start_time, t.end_time)
    IN
    IF r.kind = "raise" THEN same @@ [out |-> r]
    ELSE IF r.kind = "none"
    THEN LET alt == recommend_alternatives(booked, p.doctor_name, p.date, t.end_time + 60)
         IN  IF alt.kind = "raise" THEN same @@ [out |-> alt]
             ELSE same @@ [out |-> [kind |-> "return", value |-> SlotNotAvailable(alt.value)]]
    ELSE
    LET entry == PatientEntry(p, r.id)
        sess  == [open |-> TRUE, slot |-> r.id, dirty_slot |-> r.id, pending |-> <<entry>>]
        ok    == ~ViolatesNotNull(entry)
    IN  CommitDb(booked, rows, sess, ok) @@
        [out |-> IF ok
                 THEN [kind |-> "return", value |-> BookingConfirmation(p, r.id)]
                 ELSE [kind |-> "raise", exc |-> "IntegrityError"]]

\* DoctorDetailService.book_appointment run in one piece: the database
\* afterwards and the value returned or the exception raised
book_appointment(booked, rows, p) ==
    LET t    == ParseTimeRange(p.time_range)
        same == [slot_booked |-> booked, patients |-> rows]
    IN
    IF t.kind = "raise" THEN same @@ [out |-> t]
    ELSE
    LET r == get_slot_id(booked, p.doctor_name, p.date, t.start_time, t.end_time)
    IN
    IF r.kind = "raise" THEN same @@ [out |-> r]
    ELSE IF r.kind = "none"
    THEN LET alt == recommend_alternatives(booked, p.doctor_name, p.date, t.start_time)
         IN  IF alt.kind = "raise" THEN same @@ [out |-> alt]
             ELSE same @@ [out |-> [kind |-> "return", value |-> SlotNotAvailable(alt.value)]]
    ELSE
    LET entry == PatientEntry(p, r.id)
        sess  == [open |-> TRUE, slot |-> r.id, dirty_slot |-> r.id, pending |-> <<entry>>]
        ok    == ~ViolatesNotNull(entry)
    IN  CommitDb(booked, rows, sess, ok) @@
        [out |-> IF ok
                 THEN [kind |-> "return", value |-> BookingConfirmation(p, r.id)]
                 ELSE [kind |-> "raise", exc |-> "IntegrityError"]]

\* _run_async_db_call: the value of the service call, or the uniform error
\* payload in place of its exception
_run_async_db_call(out) == IF out.kind = "raise" THEN UniformError ELSE out.value

(***************************************************************************)
(* The language model: the assistant messages it may answer with           *)
(***************************************************************************)
ArgsBook ==
    "{\"doctor_name\": \"Dr. Rao\", \"date\": \"2025-01-05\", \"time_range\": \"10:00-10:30\", \"patient_name\": \"Ann\", \"email\": \"ann@x.org\", \"phone\": \"555\"}"

ArgsFilter == "{\"specialty\": \"Surgery\"}"

\* json.loads on the argument strings the replies carry
json_loads(text) ==
    CASE text = "{}"      -> [kind |-> "ok", value |-> <<>>]
      [] text = ArgsFilter -> [kind |-> "ok", value |-> [specialty |-> "Surgery"]]
      [] text = ArgsBook  -> [kind |-> "ok", value |->
                                [doctor_name |-> "Dr. Rao", date |-> "2025-01-05",
                                 time_range |-> "10:00-10:30", patient_name |-> "Ann",
                                 email |-> "ann@x.org", phone |-> "555"]]
      [] OTHER            -> [kind |-> "raise", exc |-> "JSONDecodeError"]

\* json.dumps(result): a string that determines the result
json_dumps(result) == ToString(result)

CallBook ==
    [type |-> "function", function |-> [name |-> "book_appointment", arguments |-> ArgsBook]]
CallFilter ==
    [id |-> "call_1", type |-> "function", function |-> [name |-> "filter_doctors", arguments |-> ArgsFilter]]
CallUnknown ==
    [id |-> "call_3", type |-> "function", function |-> [name |-> "cancel_appointment", arguments |-> "{}"]]
CallNoFunction == [id |-> "call_4", type |-> "function"]
CallBadArguments ==
    [id |-> "call_5", type |-> "function",
     function |-> [name |-> "cancel_appointment", arguments |-> "{\"date\": "]]

AssistantMessages ==
    { [role |-> "assistant", content |-> None, tool_calls |-> <<CallFilter, CallUnknown, CallBook>>],
      [role |-> "assistant", content |-> None,
       tool_calls |-> <<CallUnknown, CallNoFunction, CallBadArguments>>],
      [role |-> "assistant", content |-> None,
       function_call |-> [name |-> "get_doctors", arguments |-> "{}"]],
      [role |-> "assistant", function_call |-> [name |-> "cancel_appointment", arguments |-> "{}"]],
      [role |-> "assistant", content |-> None,
       function_call |-> [name |-> "get_doctors", arguments |-> "{\"date\": "]],
      [role |-> "assistant", content |-> "Here you go."],
      [role |-> "assistant", content |-> None] }

(***************************************************************************)
(* _call_openai and process_chat                                           *)
(***************************************************************************)
\* (mutant) the error payload carrying the text of the exception
AssistantUnavailable_WithCause ==
    [status  |-> "error",
     message |-> "Unable to contact the assistant: HTTPError 429 Too Many Requests"]

\* the payload _call_openai returns after an exception
AssistantUnavailable ==
    [status  |-> "error",
     message |-> "Unable to contact the assistant at the moment. Please try again later."]

\* int(text) on the header values the model uses; other text raises ValueError
IntOf == [x \in {"7", "30"} |-> IF x = "7" THEN 7 ELSE 30]

\* a value is truthy: neither None nor the empty string
Truthy(v) == v \notin {None, ""}

\* assistant_message.get("content", "") or ""
AssistantText(m) == IF Truthy(Get(m, "content", "")) THEN m.content ELSE ""

\* tool_call.get("function") or tool_call.get("function_call"); <<>> for none
FnInfo(tool_call) ==
    IF "function" \in DOMAIN tool_call THEN tool_call.function
    ELSE IF "function_call" \in DOMAIN tool_call THEN tool_call.function_call
    ELSE <<>>

\* (mutant) the conversation's user id put over the one the model supplied
WithUserId_Overwrite(fn_name, args, user_id) ==
    IF fn_name = "book_appointment"
    THEN [k \in DOMAIN args \cup {"user_id"} |-> IF k = "user_id" THEN user_id ELSE args[k]]
    ELSE args

\* args["user_id"] = args.get("user_id", user_id) for book_appointment
WithUserId(fn_name, args, user_id) ==
    IF fn_name = "book_appointment"
    THEN [k \in DOMAIN args \cup {"user_id"} |->
            IF k = "user_id" THEN Get(args, "user_id", user_id) ELSE args[k]]
    ELSE args

\* (mutant) the tool-result message built without the call id
FuncMessage_NoId(fn_name, result, call_id) ==
    [role |-> "function", name |-> fn_name, content |-> json_dumps(result)]

\* func_message of the tool_calls branch: tool_call_id only for a truthy id
FuncMessage(fn_name, result, call_id) ==
    IF Truthy(call_id)
    THEN [role |-> "function", name |-> fn_name, content |-> json_dumps(result),
          tool_call_id |-> call_id]
    ELSE [role |-> "function", name |-> fn_name, content |-> json_dumps(result)]

\* the function message of the function_call branch
LegacyFuncMessage(fn_name, result) ==
    [role |-> "function", name |-> fn_name, content |-> json_dumps(result)]

\* messages.append(m): messages is the list object the store holds for the
\* user (get_messages returns the list itself), so the store sees the append
Appended(h, u, m) == [h EXCEPT ![u] = Append(h[u], m)]

\* InMemoryChatStoreNew.set_messages(user_id, messages) on that same list
Stored(h, u) == set_messages(h, u, ListOf(h[u]))

----------------------------------------------------------------------------
(***************************************************************************)
(* The remaining services and the handlers of FUNCTION_MAP                 *)
(***************************************************************************)
\* Python's True and False where they travel in an argument dict
PyTrue == "<True>"
PyFalse == "<False>"

\* str(value) inside an f-string
PyStr(v) == IF v = None THEN "None" ELSE v

\* Speciality.name.ilike("%" + text + "%") on the texts the model uses: the
\* specialities whose name contains the text, whatever the case ("%None%"
\* for None)
SpecialityILike(text) ==
    CASE text \in {"Cardiology", "cardio"} -> {1}
      [] text = "Dermatology"              -> {2}
      [] text = "ology"                    -> {1, 2}
      [] OTHER                             -> {}

\* difflib.get_close_matches(text, names, n=1, cutoff=0.5) on the same texts:
\* "Cardiologist" is closest to Cardiology (0.82), "Neurology" to
\* Dermatology (0.70 against 0.63), "Surgery" to nothing; None raises
CloseMatch(text) ==
    CASE text = None                       -> [kind |-> "raise", exc |-> "TypeError"]
      [] text \in {"Cardiologist", "Cardiology", "cardio", "ology"}
                                           -> [kind |-> "one", id |-> 1]
      [] text \in {"Neurology", "Dermatology"}
                                           -> [kind |-> "one", id |-> 2]
      [] OTHER                             -> [kind |-> "none"]

\* select(Doctor).join(Speciality).where(...) for a set of specialities
DoctorsOfSpecialities(ids) ==
    IdsAscending(Len(Doctor), { d \in DoctorIds : Doctor[d].speciality_id \in ids })

\* (mutant) a filter_doctors that prefers the fuzzy match to the direct one
filter_doctors_FuzzyFirst(speciality_name) ==
    LET direct  == DoctorsOfSpecialities(SpecialityILike(speciality_name))
        close   == CloseMatch(speciality_name)
        doctors == IF close.kind = "one" THEN DoctorsOfSpecialities({close.id}) ELSE direct
    IN  IF doctors = <<>>
        THEN [kind |-> "return", value |->
                [status |-> "not_found",
                 message |-> "No doctors found for speciality '" \o PyStr(speciality_name) \o "'.",
                 doctors |-> <<>>]]
        ELSE [kind |-> "return", value |->
                [status |-> "success", type |-> "filtered_doctors",
                 speciality |-> speciality_name, total |-> Len(doctors),
                 doctors |-> [i \in 1..Len(doctors) |->
                    [doctorId |-> doctors[i], doctorName |-> Doctor[doctors[i]].name,
                     email |-> DoctorEmail(doctors[i]), address |-> DoctorAddress(doctors[i]),
                     speciality |-> Speciality[Doctor[doctors[i]].speciality_id]]]]]

\* DoctorDetailService.filter_doctors
filter_doctors(speciality_name) ==
    LET direct  == DoctorsOfSpecialities(SpecialityILike(speciality_name))
        close   == CloseMatch(speciality_name)
        doctors == IF direct # <<>> THEN direct
                   ELSE IF close.kind = "one" THEN DoctorsOfSpecialities({close.id})
                   ELSE <<>>
    IN  IF doctors = <<>>
        THEN [kind |-> "return", value |->
                [status |-> "not_found",
                 message |-> "No doctors found for speciality '" \o PyStr(speciality_name) \o "'.",
                 doctors |-> <<>>]]
        ELSE [kind |-> "return", value |->
                [status |-> "success", type |-> "filtered_doctors",
                 speciality |-> speciality_name, total |-> Len(doctors),
                 doctors |-> [i \in 1..Len(doctors) |->
                    [doctorId |-> doctors[i], doctorName |-> Doctor[doctors[i]].name,
                     email |-> DoctorEmail(doctors[i]), address |-> DoctorAddress(doctors[i]),
                     speciality |-> Speciality[Doctor[doctors[i]].speciality_id]]]]]

\* doctor.availabilities ordered by available_date (stable on the row order)
AvailabilitiesOfDoctor(doctor_id) ==
    SortedBy(IdsAscending(Len(DoctorAvailability),
                { a \in AvailabilityIds : DoctorAvailability[a].doctor_id = doctor_id }),
             [a \in AvailabilityIds |-> <<DoctorAvailability[a].available_date>>])

\* the slots listed for one availability row
SlotsPayload(booked, a, include_booked) ==
    LET ids == IdsAscending(Len(TimeSlots),
                 { x \in SlotIds : /\ TimeSlots[x].availability_id = a
                                   /\ (include_booked \/ ~booked[x]) })
    IN  [i \in 1..Len(ids) |->
            [slotId |-> ids[i], start |-> TimeToStr(TimeSlots[ids[i]].start_time),
             end |-> TimeToStr(TimeSlots[ids[i]].end_time), isBooked |-> booked[ids[i]]]]

\* (mutant) the payload with an entry for every availability row, also for
\* one with no slot to list
AvailabilityPayload_EveryDate(booked, avails, include_booked) ==
    [i \in 1..Len(avails) |->
        [availabilityId |-> avails[i],
         date |-> DateToStr(DoctorAvailability[avails[i]].available_date),
         slots |-> SlotsPayload(booked, avails[i], include_booked)]]

\* the availability rows that have a slot to list, each with its slots
AvailabilityPayload(booked, avails, include_booked) ==
    LET kept == SelectSeq(avails, LAMBDA a : SlotsPayload(booked, a, include_booked) # <<>>)
    IN  [i \in 1..Len(kept) |->
            [availabilityId |-> kept[i],
             date |-> DateToStr(DoctorAvailability[kept[i]].available_date),
             slots |-> SlotsPayload(booked, kept[i], include_booked)]]

\* DoctorDetailService.get_doctor_availability
get_doctor_availability(booked, doctor_name, date, include_booked) ==
    LET dated   == Truthy(date)
        res_doc == ScalarOneOrNone(DoctorsByName(doctor_name))
        who     == "doctor '" \o PyStr(doctor_name) \o "'" \o (IF dated THEN " on " \o date ELSE "") \o "."
    IN
    IF dated /\ ParseDate(date) = 0
    THEN [kind |-> "return", value |->
            [status |-> "error", message |-> "Invalid date format. Please use YYYY-MM-DD.",
             availability |-> <<>>]]
    ELSE IF res_doc.kind = "raise" THEN res_doc
    ELSE IF res_doc.kind = "none"
    THEN [kind |-> "return", value |->
            [status |-> "not_found",
             message |-> "No doctor found with name '" \o PyStr(doctor_name) \o "'.",
             availability |-> <<>>]]
    ELSE
    LET d       == res_doc.id
        avails  == IF dated THEN AvailabilityOf(d, ParseDate(date)) ELSE AvailabilitiesOfDoctor(d)
        payload == AvailabilityPayload(booked, avails, include_booked)
        doctor  == [doctorId |-> d, doctorName |-> Doctor[d].name, email |-> DoctorEmail(d),
                    address |-> DoctorAddress(d),
                    speciality |-> Speciality[Doctor[d].speciality_id]]
    IN
    IF avails = <<>>
    THEN [kind |-> "return", value |->
            [status |-> "not_found", message |-> "No availability configured for " \o who,
             doctor |-> [doctorId |-> d, doctorName |-> Doctor[d].name,
                         speciality |-> Speciality[Doctor[d].speciality_id]],
             availability |-> <<>>]]
    ELSE IF payload = <<>>
    THEN [kind |-> "return", value |->
            [status |-> "not_found", type |-> "doctor_availability", doctor |-> doctor,
             availability |-> <<>>,
             message |-> "No " \o (IF include_booked THEN "" ELSE "available ")
                         \o "slots found for " \o who]]
    ELSE [kind |-> "return", value |->
            [status |-> "success", type |-> "doctor_availability", doctor |-> doctor,
             availability |-> payload]]

\* _parse of _f_recommend_alternatives: "HH:MM" or "HH:MM:SS" to a time, in
\* minutes, on the texts the model uses; None has no split
ParseClock(text) ==
    CASE text \in {"10:00", "10:00:00"} -> [kind |-> "ok", time |-> 600]
      [] text \in {"10:30", "10:30:00"} -> [kind |-> "ok", time |-> 630]
      [] text = "09:45"                 -> [kind |-> "ok", time |-> 585]
      [] text = None                    -> [kind |-> "raise", exc |-> "AttributeError"]
      [] OTHER                          -> [kind |-> "raise", exc |-> "ValueError"]

\* _f_recommend_alternatives
_f_recommend_alternatives(booked, doctor_name, date, start_time, end_time) ==
    LET st == ParseClock(start_time)
        et == ParseClock(end_time)
    IN  IF st.kind = "raise" THEN st
        ELSE IF et.kind = "raise" THEN et
        ELSE \* the service reads the date with strptime only inside its tiers
             LET r == recommend_alternatives(booked, doctor_name, date, st.time)
             IN  IF r.kind = "raise" THEN r ELSE [kind |-> "return", value |-> r.value]

\* _to_bool on the values the model uses
_to_bool(value) ==
    CASE value = PyTrue  -> TRUE
      [] value = PyFalse -> FALSE
      [] value = None    -> FALSE
      [] OTHER           -> value \in {"true", "yes", " True ", "1", "Y"}

\* (mutant) lambdas that read one spelling of each argument only
HandlerArgs_OneSpelling(name, a) ==
    CASE name = "get_doctors" -> <<>>
      [] name = "filter_doctors" -> [specialty |-> Get(a, "specialty", None)]
      [] name = "get_doctor_availability" ->
            [doctor_name |-> Get(a, "doctor_name", None), date |-> Get(a, "date", None),
             include_booked |-> _to_bool(Get(a, "include_booked", PyFalse))]
      [] name = "book_appointment" ->
            [BookParams(a) EXCEPT !.time_range = Get(a, "time_range", None)]
      [] name = "recommend_alternatives" ->
            [doctor_name |-> Get(a, "doctor_name", None), date |-> Get(a, "date", None),
             start_time |-> Get(a, "start_time", None), end_time |-> Get(a, "end_time", None)]

\* the positional arguments each FUNCTION_MAP lambda builds from its keyword
\* arguments a
HandlerArgs(name, a) ==
    CASE name = "get_doctors" -> <<>>
      [] name = "filter_doctors" ->
            [specialty |-> _get_arg(a, <<"specialty", "speciality">>, None)]
      [] name = "get_doctor_availability" ->
            [doctor_name |-> Get(a, "doctor_name", None), date |-> Get(a, "date", None),
             include_booked |-> _to_bool(Get(a, "include_booked", PyFalse))]
      [] name = "book_appointment" -> BookParams(a)
      [] name = "recommend_alternatives" ->
            [doctor_name |-> Get(a, "doctor_name", None), date |-> Get(a, "date", None),
             start_time |-> Get(a, "start_time", None), end_time |-> Get(a, "end_time", None)]

\* what a call does before its first query: returns, raises, or neither
BeforeQuery(name, p) ==
    CASE name = "get_doctor_availability" /\ Truthy(p.date) /\ ParseDate(p.date) = 0 ->
            get_doctor_availability(<<>>, p.doctor_name, p.date, p.include_booked)
      [] name = "book_appointment" /\ ParseTimeRange(p.time_range).kind = "raise" ->
            ParseTimeRange(p.time_range)
      [] name = "recommend_alternatives" /\ ParseClock(p.start_time).kind = "raise" ->
            ParseClock(p.start_time)
      [] name = "recommend_alternatives" /\ ParseClock(p.end_time).kind = "raise" ->
            ParseClock(p.end_time)
      [] OTHER -> [kind |-> "query"]

\* fn(service, *args) inside _run_async_db_call: the database afterwards and
\* the value returned or the exception raised.  ok = FALSE: the database
\* does not answer, the first query raises.
ServiceCall(name, p, booked, rows, ok) ==
    LET same == [slot_booked |-> booked, patients |-> rows]
    IN
    IF BeforeQuery(name, p).kind # "query" THEN same @@ [out |-> BeforeQuery(name, p)]
    ELSE IF ~ok THEN same @@ [out |-> [kind |-> "raise", exc |-> "OperationalError"]]
    ELSE
    CASE name = "get_doctors" -> same @@ [out |-> [kind |-> "return", value |-> get_doctors]]
      [] name = "filter_doctors" -> same @@ [out |-> filter_doctors(p.specialty)]
      [] name = "get_doctor_availability" ->
            same @@ [out |-> get_doctor_availability(booked, p.doctor_name, p.date, p.include_booked)]
      [] name = "book_appointment" -> book_appointment(booked, rows, p)
      [] name = "recommend_alternatives" ->
            same @@ [out |-> _f_recommend_alternatives(booked, p.doctor_name, p.date,
                                                       p.start_time, p.end_time)]

\* (mutant) async_run without the except branch of _run_async_db_call
async_run_Unguarded(out) ==
    IF out.kind = "raise" THEN out ELSE [kind |-> "return", value |-> out.value]

\* async_run(fn, *args): asyncio.run of _run_async_db_call, which returns
\* in every case
async_run(out) == [kind |-> "return", value |-> _run_async_db_call(out)]

\* (mutant) a handler whose session undoes the latest booking when the
\* service raises
Handler_UndoOnError(name, a, booked, rows, ok) ==
    LET r == ServiceCall(name, HandlerArgs(name, a), booked, rows, ok)
        undo == r.out.kind = "raise" /\ Len(rows) > 0
    IN  [slot_booked |-> IF undo THEN [booked EXCEPT ![rows[Len(rows)].slot_id] = FALSE]
                         ELSE r.slot_booked,
         patients |-> IF undo THEN SubSeq(rows, 1, Len(rows) - 1) ELSE r.patients,
         service |-> r.out, handler |-> async_run(r.out)]

\* FUNCTION_MAP[name] applied to the keyword arguments a: the database
\* afterwards, what the service did and what the handler hands to the loop
Handler(name, a, booked, rows, ok) ==
    LET r == ServiceCall(name, HandlerArgs(name, a), booked, rows, ok)
    IN  [slot_booked |-> r.slot_booked, patients |-> r.patients,
         service |-> r.out, handler |-> async_run(r.out)]

\* FUNCTION_MAP[name] applied to args, for the tools the modelled replies
\* request, against a database that answers
FunctionCall(name, args, booked, rows) ==
    LET same == [slot_booked |-> booked, patients |-> rows]
    IN
    CASE name = "get_doctors" -> same @@ [result |-> get_doctors]
      [] name = "filter_doctors" ->
           same @@ [result |-> _run_async_db_call(
                                  filter_doctors(HandlerArgs(name, args).specialty))]
      [] name = "book_appointment" ->
           LET r == book_appointment(booked, rows, BookParams(args))
           IN  [slot_booked |-> r.slot_booked, patients |-> r.patients,
                result |-> _run_async_db_call(r.out)]

----------------------------------------------------------------------------
(***************************************************************************)
(* SpecLoop: turns of the /v1/chat endpoint.  chat_endpoint is a plain     *)
(* def, so the server runs each request on its own worker thread and turns *)
(* interleave between the steps below.  A handler call is one step here;   *)
(* SpecBook examines its inside.                                           *)
(***************************************************************************)
MaxModelCalls == 3    \* model responses consumed in one behaviour

TurnIds == {"t1", "t2"}

\* the user id a request may carry; the two users are interchangeable, so
\* the first request is u1's
UserIds(t) == IF t = "t1" THEN {"u1"} ELSE Users

UserMessage(t) == "message of " \o t

Fallback == "(fallback) Assistant is offline."

Calls(t) == turn_msg[t].tool_calls
ToolCall(t) == Calls(t)[turn_idx[t]]

Log(t, evs) == [turn_events EXCEPT ![t] = @ \o evs]
EvModel(m) == [ev |-> "model", msg |-> m]
EvAppend(m) == [ev |-> "append", msg |-> m]
EvDispatch(fn_name, k, result) ==
    [ev |-> "dispatch", name |-> fn_name, call |-> k, result |-> result]

\* a returned Python value with the type isinstance sees
Str(text) == [type |-> "str", value |-> text]
Dict(d) == [type |-> "dict", value |-> d]
NotReturned == [type |-> "pending"]

\* process_chat around _call_openai: what _call_openai returns, or a text
\* made from the exception it raises
process_chat(out) ==
    IF out.kind = "raise" THEN Str("Error contacting assistant: " \o out.exc) ELSE out.value

\* the except branch of _call_openai: the exception is printed and the turn
\* returns the error payload
Fails(t) ==
    /\ turn_pc' = [turn_pc EXCEPT ![t] = "done"]
    /\ turn_ret' = [turn_ret EXCEPT ![t] =
                       process_chat([kind |-> "return", value |-> Dict(AssistantUnavailable)])]

InitLoop ==
    /\ user_history = EmptyStore
    /\ slot_booked = InitialBooked
    /\ patients = SeedPatients(InitialBooked)
    /\ NoRecommendation /\ NoToolCall /\ NoStoreCall /\ NoBooking
    /\ turn_pc = [t \in TurnIds |-> "idle"]
    /\ turn_user = [t \in TurnIds |-> None]
    /\ turn_msg = [t \in TurnIds |-> <<>>]
    /\ turn_idx = [t \in TurnIds |-> 0]
    /\ turn_result = [t \in TurnIds |-> <<>>]
    /\ turn_ret = [t \in TurnIds |-> NotReturned]
    /\ turn_events = [t \in TurnIds |-> <<>>]
    /\ OPENAI_API_KEY = TRUE    \* the module refuses to load without a key
    /\ model_calls = 0

\* (mutant) process_chat under a lock per user id: a request waits until no
\* other turn of that user is in progress
ProcessChat_Serialized(t, u) ==
    /\ turn_pc[t] = "idle"
    /\ \A o \in TurnIds \ {t} : turn_user[o] = u => turn_pc[o] = "done"
    /\ turn_user' = [turn_user EXCEPT ![t] = u]
    /\ user_history' = add_message(user_history, u, [role |-> "user", content |-> UserMessage(t)])
    /\ turn_pc' = [turn_pc EXCEPT ![t] = IF OPENAI_API_KEY THEN "await_model" ELSE "done"]
    /\ turn_ret' = [turn_ret EXCEPT ![t] =
                       IF OPENAI_API_KEY THEN NotReturned
                       ELSE process_chat([kind |-> "return", value |-> Str(Fallback)])]
    /\ UNCHANGED <<dbVars, recVars, toolVars, callVars, bkVars, turn_msg, turn_idx, turn_result, turn_events,
                   OPENAI_API_KEY, model_calls>>

\* process_chat up to the first request; without a key _call_openai returns
\* the fallback text at once
ProcessChat(t, u) ==
    /\ turn_pc[t] = "idle"
    /\ turn_user' = [turn_user EXCEPT ![t] = u]
    /\ user_history' = add_message(user_history, u, [role |-> "user", content |-> UserMessage(t)])
    /\ turn_pc' = [turn_pc EXCEPT ![t] = IF OPENAI_API_KEY THEN "await_model" ELSE "done"]
    /\ turn_ret' = [turn_ret EXCEPT ![t] =
                       IF OPENAI_API_KEY THEN NotReturned
                       ELSE process_chat([kind |-> "return", value |-> Str(Fallback)])]
    /\ UNCHANGED <<dbVars, recVars, toolVars, callVars, bkVars, turn_msg, turn_idx, turn_result, turn_events,
                   OPENAI_API_KEY, model_calls>>

\* _maybe_wait_and_retry(response, attempt, max_attempts, base_delay): whether
\* to retry and after which delay; retry_after is the header, None if absent.
\* No call site exists in the source.
_maybe_wait_and_retry(status_code, retry_after, attempt, max_attempts, base_delay) ==
    IF status_code # 429 THEN [kind |-> "return", retry |-> FALSE, slept |-> 0]
    ELSE IF attempt >= max_attempts THEN [kind |-> "raise", exc |-> "HTTPError"]
    ELSE [kind |-> "return", retry |-> TRUE,
          slept |-> IF Truthy(retry_after) /\ retry_after \in DOMAIN IntOf
                    THEN IntOf[retry_after] ELSE base_delay * (2 ^ attempt)]

\* what makes requests.post or raise_for_status raise: no connection, or a
\* response with an error status
RequestFailures == {"ConnectionError", "429", "500"}

\* (mutant) a failed request that puts the history back to what it was
\* before the turn's first message
ModelFails_RollsBack(t, failure) ==
    /\ turn_pc[t] = "await_model"
    /\ model_calls < MaxModelCalls
    /\ model_calls' = model_calls + 1
    /\ Fails(t)
    /\ turn_events' = Log(t, <<EvModel([error |-> failure])>>)
    /\ user_history' = [user_history EXCEPT ![turn_user[t]] = <<SystemMessage>>]
    /\ UNCHANGED <<dbVars, recVars, toolVars, callVars, bkVars, turn_user, turn_msg, turn_idx,
                   turn_result, OPENAI_API_KEY>>

\* requests.post or raise_for_status raises; a 429 response is one of the
\* statuses raise_for_status raises for
ModelFails(t, failure) ==
    /\ turn_pc[t] = "await_model"
    /\ model_calls < MaxModelCalls
    /\ model_calls' = model_calls + 1
    /\ Fails(t)
    /\ turn_events' = Log(t, <<EvModel([error |-> failure])>>)
    /\ UNCHANGED <<storeVars, dbVars, recVars, toolVars, callVars, bkVars, turn_user, turn_msg, turn_idx,
                   turn_result, OPENAI_API_KEY>>

\* branch 1: the reply has tool_calls; it is appended before the for loop
ToolCallsReply(t, m) ==
    /\ turn_pc[t] = "await_model"
    /\ model_calls < MaxModelCalls
    /\ "tool_calls" \in DOMAIN m
    /\ model_calls' = model_calls + 1
    /\ user_history' = Appended(user_history, turn_user[t], m)
    /\ turn_msg' = [turn_msg EXCEPT ![t] = m]
    /\ turn_idx' = [turn_idx EXCEPT ![t] = 1]
    /\ turn_pc' = [turn_pc EXCEPT ![t] = "tool_calls"]
    /\ turn_events' = Log(t, <<EvModel(m), EvAppend(m)>>)
    /\ UNCHANGED <<dbVars, recVars, toolVars, callVars, bkVars, turn_user, turn_result, turn_ret, OPENAI_API_KEY>>

\* for loop: "continue" for a call without function info or with a name
\* FUNCTION_MAP does not know (its arguments are parsed first)
SkipToolCall(t) ==
    /\ turn_pc[t] = "tool_calls"
    /\ turn_idx[t] <= Len(Calls(t))
    /\ LET fn_info == FnInfo(ToolCall(t))
       IN  \/ fn_info = <<>>
           \/ /\ fn_info # <<>>
              /\ json_loads(Get(fn_info, "arguments", "{}")).kind = "ok"
              /\ Get(fn_info, "name", None) \notin FunctionNames
    /\ turn_idx' = [turn_idx EXCEPT ![t] = @ + 1]
    /\ UNCHANGED <<storeVars, dbVars, recVars, toolVars, callVars, bkVars, turn_pc, turn_user, turn_msg,
                   turn_result, turn_ret, turn_events, OPENAI_API_KEY, model_calls>>

\* for loop: json.loads raises, the turn leaves through the except branch
ToolCallArgumentsInvalid(t) ==
    /\ turn_pc[t] = "tool_calls"
    /\ turn_idx[t] <= Len(Calls(t))
    /\ LET fn_info == FnInfo(ToolCall(t))
       IN  /\ fn_info # <<>>
           /\ json_loads(Get(fn_info, "arguments", "{}")).kind = "raise"
    /\ Fails(t)
    /\ UNCHANGED <<storeVars, dbVars, recVars, toolVars, callVars, bkVars, turn_user, turn_msg, turn_idx,
                   turn_result, turn_events, OPENAI_API_KEY, model_calls>>

\* for loop: the handler of a known function is called with the arguments
DispatchToolCall(t) ==
    /\ turn_pc[t] = "tool_calls"
    /\ turn_idx[t] <= Len(Calls(t))
    /\ LET fn_info == FnInfo(ToolCall(t))
       IN  /\ fn_info # <<>>
           /\ json_loads(Get(fn_info, "arguments", "{}")).kind = "ok"
           /\ Get(fn_info, "name", None) \in FunctionNames
           /\ LET fn_name == fn_info.name
                  args    == WithUserId(fn_name, json_loads(Get(fn_info, "arguments", "{}")).value,
                                        turn_user[t])
              IN  \E r \in {FunctionCall(fn_name, args, slot_booked, patients)} :
                      /\ slot_booked' = r.slot_booked
                      /\ patients' = r.patients
                      /\ turn_result' = [turn_result EXCEPT ![t] = r.result]
                      /\ turn_events' = Log(t, <<EvDispatch(fn_name, turn_idx[t], r.result)>>)
    /\ turn_pc' = [turn_pc EXCEPT ![t] = "tool_result"]
    /\ UNCHANGED <<storeVars, recVars, toolVars, callVars, bkVars, turn_user, turn_msg, turn_idx, turn_ret,
                   OPENAI_API_KEY, model_calls>>

\* (mutant) a for loop that gives up the turn on a result with status
\* 'error' or 'not_found' instead of appending it
AppendToolResult_AbortOnError(t) ==
    /\ turn_pc[t] = "tool_result"
    /\ IF turn_result[t].status \in {"error", "not_found"}
       THEN /\ Fails(t)
            /\ UNCHANGED <<storeVars, turn_events, turn_idx, turn_result>>
       ELSE /\ LET func_message == FuncMessage(FnInfo(ToolCall(t)).name, turn_result[t],
                                               Get(ToolCall(t), "id", None))
               IN  /\ user_history' = Appended(user_history, turn_user[t], func_message)
                   /\ turn_events' = Log(t, <<EvAppend(func_message)>>)
            /\ turn_idx' = [turn_idx EXCEPT ![t] = @ + 1]
            /\ turn_result' = [turn_result EXCEPT ![t] = <<>>]
            /\ turn_pc' = [turn_pc EXCEPT ![t] = "tool_calls"]
            /\ UNCHANGED turn_ret
    /\ UNCHANGED <<dbVars, recVars, toolVars, callVars, bkVars, turn_user, turn_msg, OPENAI_API_KEY,
                   model_calls>>

\* for loop: func_message is built and appended
AppendToolResult(t) ==
    /\ turn_pc[t] = "tool_result"
    /\ LET func_message == FuncMessage(FnInfo(ToolCall(t)).name, turn_result[t],
                                       Get(ToolCall(t), "id", None))
       IN  /\ user_history' = Appended(user_history, turn_user[t], func_message)
           /\ turn_events' = Log(t, <<EvAppend(func_message)>>)
    /\ turn_idx' = [turn_idx EXCEPT ![t] = @ + 1]
    /\ turn_result' = [turn_result EXCEPT ![t] = <<>>]
    /\ turn_pc' = [turn_pc EXCEPT ![t] = "tool_calls"]
    /\ UNCHANGED <<dbVars, recVars, toolVars, callVars, bkVars, turn_user, turn_msg, turn_ret, OPENAI_API_KEY,
                   model_calls>>

\* after the for loop: set_messages, then "continue"
EndToolRound(t) ==
    /\ turn_pc[t] = "tool_calls"
    /\ turn_idx[t] > Len(Calls(t))
    /\ user_history' = Stored(user_history, turn_user[t])
    /\ turn_pc' = [turn_pc EXCEPT ![t] = "await_model"]
    /\ UNCHANGED <<dbVars, recVars, toolVars, callVars, bkVars, turn_user, turn_msg, turn_idx, turn_result,
                   turn_ret, turn_events, OPENAI_API_KEY, model_calls>>

\* the function FUNCTION_MAP has for a function_call reply: its name, after
\* the arguments parsed; None when the name is unknown
LegacyFunction(m) ==
    IF m.function_call.name \in FunctionNames THEN m.function_call.name ELSE None

LegacyArgs(m) == json_loads(Get(m.function_call, "arguments", "{}"))

\* branch 2: the reply has function_call and FUNCTION_MAP knows the name
FunctionCallReply(t, m) ==
    /\ turn_pc[t] = "await_model"
    /\ model_calls < MaxModelCalls
    /\ "tool_calls" \notin DOMAIN m
    /\ "function_call" \in DOMAIN m
    /\ LegacyArgs(m).kind = "ok"
    /\ LegacyFunction(m) # None
    /\ model_calls' = model_calls + 1
    /\ turn_msg' = [turn_msg EXCEPT ![t] = m]
    /\ turn_pc' = [turn_pc EXCEPT ![t] = "function_call"]
    /\ turn_events' = Log(t, <<EvModel(m)>>)
    /\ UNCHANGED <<storeVars, dbVars, recVars, toolVars, callVars, bkVars, turn_user, turn_idx, turn_result,
                   turn_ret, OPENAI_API_KEY>>

\* branch 2: json.loads raises
FunctionCallArgumentsInvalid(t, m) ==
    /\ turn_pc[t] = "await_model"
    /\ model_calls < MaxModelCalls
    /\ "tool_calls" \notin DOMAIN m
    /\ "function_call" \in DOMAIN m
    /\ LegacyArgs(m).kind = "raise"
    /\ model_calls' = model_calls + 1
    /\ Fails(t)
    /\ turn_events' = Log(t, <<EvModel(m)>>)
    /\ UNCHANGED <<storeVars, dbVars, recVars, toolVars, callVars, bkVars, turn_user, turn_msg, turn_idx,
                   turn_result, OPENAI_API_KEY>>

\* branch 2: the handler is called before anything is appended
LegacyDispatch(t) ==
    /\ turn_pc[t] = "function_call"
    /\ LET fn_name == LegacyFunction(turn_msg[t])
           args    == WithUserId(fn_name, LegacyArgs(turn_msg[t]).value, turn_user[t])
       IN  \E r \in {FunctionCall(fn_name, args, slot_booked, patients)} :
               /\ slot_booked' = r.slot_booked
               /\ patients' = r.patients
               /\ turn_result' = [turn_result EXCEPT ![t] = r.result]
               /\ turn_events' = Log(t, <<EvDispatch(fn_name, 1, r.result)>>)
    /\ turn_pc' = [turn_pc EXCEPT ![t] = "function_result"]
    /\ UNCHANGED <<storeVars, recVars, toolVars, callVars, bkVars, turn_user, turn_msg, turn_idx, turn_ret,
                   OPENAI_API_KEY, model_calls>>

\* branch 2: the assistant message and the function message are appended,
\* set_messages, then "continue"
LegacyAppend(t) ==
    /\ turn_pc[t] = "function_result"
    /\ LET func_message == LegacyFuncMessage(LegacyFunction(turn_msg[t]), turn_result[t])
           u            == turn_user[t]
       IN  /\ user_history' =
                 Stored(Appended(Appended(user_history, u, turn_msg[t]), u, func_message), u)
           /\ turn_events' = Log(t, <<EvAppend(turn_msg[t]), EvAppend(func_message)>>)
    /\ turn_result' = [turn_result EXCEPT ![t] = <<>>]
    /\ turn_pc' = [turn_pc EXCEPT ![t] = "await_model"]
    /\ UNCHANGED <<dbVars, recVars, toolVars, callVars, bkVars, turn_user, turn_msg, turn_idx, turn_ret,
                   OPENAI_API_KEY, model_calls>>

\* branch 3: no tool_calls, and no function_call that FUNCTION_MAP knows:
\* the text is appended and the history stored
FinalReply(t, m) ==
    /\ turn_pc[t] = "await_model"
    /\ model_calls < MaxModelCalls
    /\ "tool_calls" \notin DOMAIN m
    /\ "function_call" \in DOMAIN m => LegacyArgs(m).kind = "ok" /\ LegacyFunction(m) = None
    /\ model_calls' = model_calls + 1
    /\ LET final == [role |-> "assistant", content |-> AssistantText(m)]
           u     == turn_user[t]
       IN  /\ user_history' = Stored(Appended(user_history, u, final), u)
           /\ turn_events' = Log(t, <<EvModel(m), EvAppend(final)>>)
    /\ turn_msg' = [turn_msg EXCEPT ![t] = m]
    /\ turn_pc' = [turn_pc EXCEPT ![t] = "returning"]
    /\ UNCHANGED <<dbVars, recVars, toolVars, callVars, bkVars, turn_user, turn_idx, turn_result, turn_ret,
                   OPENAI_API_KEY>>

\* return assistant_text
Return(t) ==
    /\ turn_pc[t] = "returning"
    /\ turn_ret' = [turn_ret EXCEPT ![t] =
                       process_chat([kind |-> "return", value |-> Str(AssistantText(turn_msg[t]))])]
    /\ turn_pc' = [turn_pc EXCEPT ![t] = "done"]
    /\ UNCHANGED <<storeVars, dbVars, recVars, toolVars, callVars, bkVars, turn_user, turn_msg, turn_idx,
                   turn_result, turn_events, OPENAI_API_KEY, model_calls>>

NextLoop ==
    \E t \in TurnIds :
        \/ \E u \in UserIds(t) : ProcessChat(t, u)
        \/ \E failure \in RequestFailures : ModelFails(t, failure)
        \/ \E m \in AssistantMessages :
              \/ ToolCallsReply(t, m)
              \/ FunctionCallReply(t, m)
              \/ FunctionCallArgumentsInvalid(t, m)
              \/ FinalReply(t, m)
        \/ SkipToolCall(t)
        \/ ToolCallArgumentsInvalid(t)
        \/ DispatchToolCall(t)
        \/ LegacyDispatch(t)
        \/ AppendToolResult(t)
        \/ EndToolRound(t)
        \/ LegacyAppend(t)
        \/ Return(t)

SpecLoop == InitLoop /\ [][NextLoop]_vars

----------------------------------------------------------------------------
(***************************************************************************)
(* Claims about the dialogue loop                                          *)
(***************************************************************************)
\* a reply that opens a tool round: it has tool_calls, or a function_call
\* that is dispatched
ToolRound(m) ==
    \/ "tool_calls" \in DOMAIN m
    \/ /\ "function_call" \in DOMAIN m
       /\ LegacyArgs(m).kind = "ok"
       /\ LegacyFunction(m) # None

\* the calls a reply requests, in the order the model returned them
RequestedCalls(m) ==
    IF "tool_calls" \in DOMAIN m THEN m.tool_calls ELSE <<[function |-> m.function_call]>>

\* the calls of a reply that are dispatched
Dispatchable(m) ==
    { k \in 1..Len(RequestedCalls(m)) :
        LET fn_info == FnInfo(RequestedCalls(m)[k])
        IN  fn_info # <<>> /\ Get(fn_info, "name", None) \in FunctionNames }

\* positions in a turn's log where the model answered
ModelEvents(e) == { i \in 1..Len(e) : e[i].ev = "model" }
LaterModelEvents(e, i) == { j \in ModelEvents(e) : j > i }
CalledAgain(e, i) == LaterModelEvents(e, i) # {}
RoundEnd(e, i) ==
    IF CalledAgain(e, i)
    THEN (CHOOSE j \in LaterModelEvents(e, i) : \A k \in LaterModelEvents(e, i) : j <= k) - 1
    ELSE Len(e)

\* what the turn did in the round opened at position i
Round(e, i) == SubSeq(e, i + 1, RoundEnd(e, i))

\* msg is the tool-result message of the dispatch event d of reply m
ResultOf(msg, d, m) ==
    LET id == Get(RequestedCalls(m)[d.call], "id", None)
    IN  /\ msg.role = "function"
        /\ msg.name = d.name
        /\ msg.content = json_dumps(d.result)
        /\ (Truthy(id) => Get(msg, "tool_call_id", None) = id)

\* r is dispatch, result, dispatch, result, ... of calls of m in their order
DispatchesInOrder(r, m) ==
    /\ \A j \in 1..Len(r) :
         IF j % 2 = 1
         THEN /\ r[j].ev = "dispatch"
              /\ r[j].call \in Dispatchable(m)
              /\ r[j].name = FnInfo(RequestedCalls(m)[r[j].call]).name
         ELSE /\ r[j].ev = "append"
              /\ ResultOf(r[j].msg, r[j - 1], m)
    /\ \A j, k \in 1..Len(r) :
         j < k /\ r[j].ev = "dispatch" /\ r[k].ev = "dispatch" => r[j].call < r[k].call

\* every dispatched call of m has its result in r
AllResultsAppended(r, m) ==
    /\ Len(r) % 2 = 0
    /\ { r[j].call : j \in { x \in 1..Len(r) : x % 2 = 1 } } = Dispatchable(m)

\* the round in the order the claim gives: message, then dispatch and result
\* of each call, and the next model call after the last result
MessageFirst(r, m, again) ==
    /\ r # <<>> => r[1] = EvAppend(m)
    /\ r # <<>> => DispatchesInOrder(Tail(r), m)
    /\ again => r # <<>> /\ AllResultsAppended(Tail(r), m)

\* the round of a function_call reply: dispatch, then the message, then the
\* result without a call id, and the next model call after them
DispatchFirst(r, m, again) ==
    /\ Len(r) <= 3
    /\ Len(r) >= 1 => r[1].ev = "dispatch" /\ r[1].call = 1 /\ r[1].name = m.function_call.name
    /\ Len(r) >= 2 => r[2] = EvAppend(m)
    /\ Len(r) >= 3 => /\ r[3].ev = "append"
                      /\ ResultOf(r[3].msg, r[1], m)
                      /\ "tool_call_id" \notin DOMAIN r[3].msg
    /\ again => Len(r) = 3

\* the messages a turn appended, in the order it appended them
AppendedBy(e) ==
    LET idx == SelectSeq([i \in 1..Len(e) |-> i], LAMBDA i : e[i].ev = "append")
    IN  [j \in 1..Len(idx) |-> e[idx[j]].msg]

RECURSIVE IsSubsequence(_, _)
IsSubsequence(a, b) ==
    IF a = <<>> THEN TRUE
    ELSE IF b = <<>> THEN FALSE
    ELSE IF Head(a) = Head(b) THEN IsSubsequence(Tail(a), Tail(b))
    ELSE IsSubsequence(a, Tail(b))

\* the history of the turn's user holds what the turn appended, in order
InHistory(t) ==
    turn_events[t] # <<>> =>
        IsSubsequence(AppendedBy(turn_events[t]), user_history[turn_user[t]])

\* C9 as stated: in every tool round of a turn the assistant's tool-call
\* message is appended to the history first, then the requested tools are
\* dispatched one at a time in the order the model returned them, each
\* dispatched call appends exactly one tool-result message, in the same
\* order, carrying the originating call's id when the model provided one,
\* and the model is called again only after all results are appended.
C9_MessageFirstInEveryRound ==
    \A t \in TurnIds :
        /\ InHistory(t)
        /\ \A i \in ModelEvents(turn_events[t]) :
             LET e == turn_events[t]
             IN  ToolRound(e[i].msg) =>
                    MessageFirst(Round(e, i), e[i].msg, CalledAgain(e, i))

\* C9 amended: a round opened by a tool_calls reply runs as stated (message
\* first, then each dispatch followed by its one result carrying the call's
\* id when provided); a round opened by a function_call reply dispatches its
\* single tool first and appends the assistant's message and one result
\* message without call id afterwards; in both, the model is called again
\* only after all results are appended, and the appended messages stand in
\* the user's history in that order.
C9_ToolRoundOrder ==
    \A t \in TurnIds :
        /\ InHistory(t)
        /\ \A i \in ModelEvents(turn_events[t]) :
             LET e == turn_events[t]
                 m == e[i].msg
             IN  ToolRound(m) =>
                    IF "tool_calls" \in DOMAIN m
                    THEN MessageFirst(Round(e, i), m, CalledAgain(e, i))
                    ELSE DispatchFirst(Round(e, i), m, CalledAgain(e, i))

\* a turn went through a tool_calls round with two dispatched calls, one with
\* an id and one without, and through a function_call round, and called the
\* model again after each
C9_Witness ==
    \E t \in TurnIds :
        LET e == turn_events[t]
        IN  /\ \E i \in ModelEvents(e) :
                 /\ "tool_calls" \in DOMAIN e[i].msg
                 /\ CalledAgain(e, i)
                 /\ Len(Round(e, i)) = 5
                 /\ "tool_call_id" \in DOMAIN Round(e, i)[3].msg
                 /\ "tool_call_id" \notin DOMAIN Round(e, i)[5].msg
            /\ \E i \in ModelEvents(e) :
                 /\ "function_call" \in DOMAIN e[i].msg
                 /\ CalledAgain(e, i)
                 /\ Len(Round(e, i)) = 3

\* the text of a reply: its content, the empty string when the content is
\* absent or null
ModelText(m) == IF "content" \in DOMAIN m /\ m.content # None THEN m.content ELSE ""

\* C10: when the model's reply requests no tool call, its text (the empty
\* string when content is absent or null) is appended as an assistant
\* message, and when the turn returns that message is the last one of the
\* user's stored history and the returned value equals its content.
C10_FinalReplyIsLast ==
    [][\A t \in TurnIds :
          LET final == [role |-> "assistant", content |-> ModelText(turn_msg'[t])]
              last  == user_history'[turn_user[t]][Len(user_history'[turn_user[t]])]
          IN  /\ turn_pc[t] = "await_model" /\ turn_pc'[t] = "returning" => last = final
              /\ turn_pc[t] = "returning" /\ turn_pc'[t] = "done" =>
                    last = final /\ turn_ret'[t] = Str(final.content)]_vars

\* position i of a turn's log is a model call answered with 429
RateLimited(e, i) == e[i].ev = "model" /\ Get(e[i].msg, "error", None) = "429"

\* C11: a model call answered with HTTP 429 is retried (after the Retry-After
\* wait or the backoff) and the turn surfaces a failure only after the
\* attempts are exhausted: after a first 429 the turn still waits for the
\* model, it has not ended.
C11_RateLimitRetried ==
    \A t \in TurnIds :
        LET e == turn_events[t]
            n == Len(e)
        IN  (n >= 1 /\ RateLimited(e, n) /\ (n = 1 \/ ~RateLimited(e, n - 1)))
                => turn_pc[t] = "await_model"

\* the last answer of the model a turn received
LastModelEvent(e) == e[CHOOSE i \in ModelEvents(e) : \A j \in ModelEvents(e) : j <= i]

\* the two shapes a turn may return: the text of the model's final reply, or
\* the fixed payload
IsFinalText(t) ==
    /\ turn_ret[t].type = "str"
    /\ ModelEvents(turn_events[t]) # {}
    /\ "error" \notin DOMAIN LastModelEvent(turn_events[t]).msg
    /\ ~ToolRound(LastModelEvent(turn_events[t]).msg)
    /\ turn_ret[t].value = ModelText(LastModelEvent(turn_events[t]).msg)

IsGenericError(t) ==
    /\ turn_ret[t].type = "dict"
    /\ turn_ret[t].value =
          [status  |-> "error",
           message |-> "Unable to contact the assistant at the moment. Please try again later."]

\* C12: process_chat never raises and returns only the final assistant text
\* or the fixed generic error payload, whatever the model and the backend
\* do; no text of an exception is in what it returns.
C12_TwoShapes ==
    \A t \in TurnIds :
        turn_pc[t] = "done" => IsFinalText(t) \/ IsGenericError(t)

\* one turn ended with the payload after the tool arguments failed to parse,
\* the other one with the model's text
C12_Witness ==
    /\ turn_pc["t1"] = "done" /\ IsGenericError("t1")
    /\ \E i \in 1..Len(turn_events["t1"]) : turn_events["t1"][i].ev = "append"
    /\ "error" \notin DOMAIN LastModelEvent(turn_events["t1"]).msg
    /\ turn_pc["t2"] = "done" /\ IsFinalText("t2")

----------------------------------------------------------------------------
(***************************************************************************)
(* SpecTool: one call of a FUNCTION_MAP handler with arbitrary arguments   *)
(***************************************************************************)
\* the dicts that have key k with a value of vals, or do not have it
Optional(k, vals) == {<<>>} \cup { [x \in {k} |-> v] : v \in vals }

SpecialtyInputs == {"Cardiology", "cardio", "ology", "Cardiologist", "Neurology", "Surgery"}
TimeRangeInputs == {"10:00-10:30", "09:00-09:30", "soon"}

FilterArgs ==
    { a @@ b : a \in Optional("specialty", SpecialtyInputs),
               b \in Optional("speciality", SpecialtyInputs) }

AvailabilityArgs ==
    { a @@ b @@ c : a \in Optional("doctor_name", {"Dr. Rao", "Dr. Twin", "Dr. Who"}),
                    b \in Optional("date", {"2025-01-05", "05/01/2025", "2025-01-09"}),
                    c \in Optional("include_booked", {PyTrue, "yes", "no"}) }

BookingArgs ==
    { a @@ b @@ c @@ d @@ e :
        a \in { [doctor_name |-> n, date |-> d, patient_name |-> "Ann", phone |-> "555"]
                  : n \in {"Dr. Rao", "Dr. Twin", "Dr. Who"},
                    d \in {"2025-01-05", "2025-01-09", "05/01/2025"} },
        b \in Optional("time", TimeRangeInputs),
        c \in Optional("time_range", TimeRangeInputs),
        d \in Optional("user_id", {"u7"}),
        e \in Optional("email", {"ann@x.org"}) }

RecommendArgs ==
    { a @@ b @@ c :
        a \in [doctor_name : {"Dr. Rao", "Dr. Who"}, date : {"2025-01-05", "05/01/2025"}],
        b \in Optional("start_time", {"10:00", "10:00:00", "09:45", "bad"}),
        c \in Optional("end_time", {"10:30", "bad"}) }

ToolArgs(name) ==
    CASE name = "get_doctors"             -> {<<>>}
      [] name = "filter_doctors"          -> FilterArgs
      [] name = "get_doctor_availability" -> AvailabilityArgs
      [] name = "book_appointment"        -> BookingArgs
      [] name = "recommend_alternatives"  -> RecommendArgs

\* user_id is the user of the turn that dispatches the call, None for a call
\* of FUNCTION_MAP[name] from outside the dialogue loop
ToolRequests ==
    UNION { { [name |-> n, args |-> a, ok |-> ok, user_id |-> u] :
                a \in ToolArgs(n), ok \in BOOLEAN, u \in {None, "u1"} }
              : n \in FunctionNames }

\* the keyword arguments the handler is called with
CallArgs(req) ==
    IF req.user_id = None THEN req.args ELSE WithUserId(req.name, req.args, req.user_id)

\* the calendars a call may meet: slot 3 booked, slot 1, both, or slot 3 and
\* the only slot of Dr. Rao's second day
ToolCalendars == { [x \in SlotIds |-> x \in B] : B \in {{3}, {1}, {1, 3}, {3, 7}} }

InitTool ==
    /\ user_history = EmptyStore
    /\ slot_booked \in ToolCalendars
    /\ patients = SeedPatients(slot_booked)
    /\ NoRecommendation /\ NoStoreCall /\ NoBooking /\ NoTurn
    /\ tool_req \in ToolRequests
    /\ tool_out = <<>>

\* the user id is put into the arguments of book_appointment and the handler
\* is called, as the dialogue loop does
CallTool ==
    /\ tool_out = <<>>
    /\ \E r \in {Handler(tool_req.name, CallArgs(tool_req), slot_booked, patients, tool_req.ok)} :
          /\ slot_booked' = r.slot_booked
          /\ patients' = r.patients
          /\ tool_out' = [service |-> r.service, handler |-> r.handler]
    /\ UNCHANGED <<storeVars, recVars, tool_req, callVars, bkVars, turnVars>>

NextTool == CallTool

SpecTool == InitTool /\ [][NextTool]_vars

\* the service call failed: it raised, or the database did not answer
ServiceFailed == tool_out.service.kind = "raise"

\* C13: every handler of FUNCTION_MAP turns any failure of the backend or of
\* the service call, unparseable time arguments included, into the uniform
\* payload returned as the tool result; no exception leaves a handler.
C13_HandlersNeverRaise ==
    tool_out # <<>> =>
        /\ tool_out.handler.kind = "return"
        /\ ServiceFailed =>
              tool_out.handler.value =
                 [status  |-> "error",
                  message |-> "Something went wrong while processing your request. Please try again later."]

\* a booking whose time range does not parse has returned the payload
C13_Witness ==
    /\ tool_out # <<>>
    /\ tool_req.name = "book_appointment"
    /\ tool_out.service = [kind |-> "raise", exc |-> "ValueError"]
    /\ tool_out.handler.value.status = "error"

\* the database did not answer a handler that needs no argument
C13_WitnessBackend ==
    /\ tool_out # <<>>
    /\ tool_req.name = "get_doctors" /\ ~tool_req.ok
    /\ tool_out.service.kind = "raise"
    /\ tool_out.handler.value.status = "error"

\* the dict a with key k renamed to key other
Renamed(a, k, other) ==
    [x \in (DOMAIN a \ {k}) \cup {other} |-> IF x = other THEN a[k] ELSE a[x]]

\* the request has exactly one of the two spellings k, other
OneOf(a, k, other) == (k \in DOMAIN a) # (other \in DOMAIN a)

\* the same request with the other spelling of the key it uses
OtherSpelling(req, k, other) ==
    [req EXCEPT !.args = IF k \in DOMAIN req.args THEN Renamed(req.args, k, other)
                         ELSE Renamed(req.args, other, k)]

\* the call just made gave what the call of request req gives on the same
\* database: same result, same database afterwards
SameAs(req) ==
    LET r == Handler(req.name, CallArgs(req), slot_booked, patients, req.ok)
    IN  /\ tool_out'.handler = r.handler
        /\ slot_booked' = r.slot_booked
        /\ patients' = r.patients

\* C14: for the same value, filter_doctors gives identical results with key
\* 'speciality' and with key 'specialty', and book_appointment gives
\* identical results with key 'time' and with key 'time_range'.
C14_ArgumentAliases ==
    [][tool_out = <<>> /\ tool_out' # <<>> =>
          /\ (tool_req.name = "filter_doctors" /\ OneOf(tool_req.args, "specialty", "speciality"))
                => SameAs(OtherSpelling(tool_req, "specialty", "speciality"))
          /\ (tool_req.name = "book_appointment" /\ OneOf(tool_req.args, "time", "time_range"))
                => SameAs(OtherSpelling(tool_req, "time", "time_range"))]_vars

\* a booking made with key 'time' alone went through
C14_Witness ==
    /\ tool_out # <<>>
    /\ tool_req.name = "book_appointment"
    /\ "time" \in DOMAIN tool_req.args /\ "time_range" \notin DOMAIN tool_req.args
    /\ tool_out.handler.value.status = "success"

\* doctors were found with key 'speciality' alone
C14_WitnessFilter ==
    /\ tool_out # <<>>
    /\ tool_req.name = "filter_doctors"
    /\ "speciality" \in DOMAIN tool_req.args /\ "specialty" \notin DOMAIN tool_req.args
    /\ tool_out.handler.value.status = "success"

\* the user id a booking of request req has to carry
BookingUser(req) ==
    IF "user_id" \in DOMAIN req.args THEN req.args.user_id
    ELSE IF req.user_id # None THEN req.user_id
    ELSE "anonymous"

\* C15: a book_appointment call without user_id books for the conversation's
\* user, a user_id the model supplied is kept, and 'anonymous' is used only
\* when there is no id at all: the patient record created and the call's
\* confirmation belong to that user.
C15_BookingUserId ==
    [][(tool_out = <<>> /\ tool_out' # <<>> /\ Len(patients') > Len(patients)) =>
          /\ tool_req.name = "book_appointment"
          /\ Len(patients') = Len(patients) + 1
          /\ patients'[Len(patients')].user_id = BookingUser(tool_req)
          /\ (patients'[Len(patients')].user_id = "anonymous"
                => tool_req.user_id = None /\ "user_id" \notin DOMAIN tool_req.args)]_vars

\* a booking without user_id made in u1's conversation has u1's record
C15_Witness ==
    /\ tool_out # <<>>
    /\ tool_req.name = "book_appointment"
    /\ "user_id" \notin DOMAIN tool_req.args /\ tool_req.user_id = "u1"
    /\ tool_out.handler.value.status = "success"
    /\ patients[Len(patients)].user_id = "u1"

\* a booking with the model's user_id made in u1's conversation keeps it
C15_WitnessSupplied ==
    /\ tool_out # <<>>
    /\ tool_req.name = "book_appointment"
    /\ "user_id" \in DOMAIN tool_req.args /\ tool_req.user_id = "u1"
    /\ patients[Len(patients)].user_id = "u7"

----------------------------------------------------------------------------
(***************************************************************************)
(* The tool catalog given to the model                                     *)
(***************************************************************************)
\* InMemoryChatStoreNew.FUNCTIONS: name -> the names under "properties"
FUNCTIONS ==
    [get_doctors             |-> {},
     filter_doctors          |-> {"specialty"},
     get_doctor_availability |-> {"doctor_name", "date"},
     book_appointment        |-> {"user_id", "doctor_name", "date", "time", "patient_name",
                                  "email", "phone"},
     recommend_alternatives  |-> {"doctor_name", "date", "start_time", "end_time", "specialty"}]

\* every argument name the catalog or a handler knows
ArgumentNames ==
    UNION { FUNCTIONS[n] : n \in DOMAIN FUNCTIONS }
        \cup {"speciality", "time_range", "include_booked"}

\* the argument names the handler of name reads: the keys whose presence
\* changes what the lambda passes on
ArgumentsRead(name) ==
    { k \in ArgumentNames :
        \E v \in {"probe", "yes"} :
            HandlerArgs(name, [x \in {k} |-> v]) # HandlerArgs(name, <<>>) }

\* C16: the catalog and the dispatch table do not drift: the tool names of
\* FUNCTIONS are the keys of FUNCTION_MAP, and for every tool the argument
\* names the catalog declares are the argument names the handler reads
\* (stated for the tool of the call at hand, which may be any of them).
C16_CatalogMatchesDispatch ==
    /\ DOMAIN FUNCTIONS = FunctionNames
    /\ tool_req.name \in DOMAIN FUNCTIONS
    /\ FUNCTIONS[tool_req.name] = ArgumentsRead(tool_req.name)

----------------------------------------------------------------------------
\* the stored history of user u is not what it was: created, removed or altered
HistoryChanged(u) ==
    \/ (u \in DOMAIN user_history) # (u \in DOMAIN user_history')
    \/ u \in DOMAIN user_history /\ u \in DOMAIN user_history' /\ user_history'[u] # user_history[u]

\* the step is a step of turn t
TurnStepped(t) ==
    <<turn_pc'[t], turn_msg'[t], turn_idx'[t], turn_result'[t], turn_ret'[t], turn_events'[t]>>
        # <<turn_pc[t], turn_msg[t], turn_idx[t], turn_result[t], turn_ret[t], turn_events[t]>>

\* the step is a store operation for user u, or a step of a turn of user u
ExecutedFor(u) ==
    \/ store_call' # <<>> /\ store_call'.user_id = u
    \/ \E t \in DOMAIN turn_pc : TurnStepped(t) /\ turn_user'[t] = u

\* C20: turns and store operations for different user ids are independent:
\* a step changes the stored history of a user only if it is a store
\* operation or a step of a dialogue turn executed for that user.
C20_UsersIndependent ==
    [][\A u \in Users : HistoryChanged(u) => ExecutedFor(u)]_vars

----------------------------------------------------------------------------
\* the positional arguments of the call under examination
Params == HandlerArgs(tool_req.name, CallArgs(tool_req))

\* the doctors of a name, the availability rows of a doctor on a day, the
\* unbooked slots of a doctor on a day with a given start and end
Named(n) == { d \in DoctorIds : Doctor[d].name = n }
RowsOn(d, day) ==
    { a \in AvailabilityIds : DoctorAvailability[a].doctor_id = d
                              /\ DoctorAvailability[a].available_date = day }
OpenMatching(d, day, start_time, end_time) ==
    { x \in SlotIds : /\ TimeSlots[x].availability_id \in RowsOn(d, day)
                      /\ TimeSlots[x].start_time = start_time
                      /\ TimeSlots[x].end_time = end_time
                      /\ ~slot_booked[x] }

\* the call asks for data the database does not have: no doctor of the
\* name, or one doctor and no availability row for the well-formed date,
\* or, for a booking, no open slot with the requested start and end
AvailabilityAbsent ==
    /\ tool_req.name = "get_doctor_availability"
    /\ ~Truthy(Params.date) \/ DateOk(Params.date)
    /\ \/ Named(Params.doctor_name) = {}
       \/ /\ Cardinality(Named(Params.doctor_name)) = 1
          /\ Truthy(Params.date) /\ DateOk(Params.date)
          /\ \A d \in Named(Params.doctor_name) : RowsOn(d, ParseDate(Params.date)) = {}

BookingAbsent ==
    /\ tool_req.name = "book_appointment"
    /\ ParseTimeRange(Params.time_range).kind = "ok"
    /\ DateOk(Params.date)
    /\ \/ Named(Params.doctor_name) = {}
       \/ /\ Cardinality(Named(Params.doctor_name)) = 1
          /\ \A d \in Named(Params.doctor_name) :
                OpenMatching(d, ParseDate(Params.date), ParseTimeRange(Params.time_range).start_time,
                             ParseTimeRange(Params.time_range).end_time) = {}

\* C21: absence of data is reported with status 'not_found', not 'error':
\* an unknown doctor, a doctor without availability for the date, or no
\* matching open slot gives status 'not_found' from get_doctor_availability
\* and book_appointment, and filter_doctors reports an empty doctor list
\* with status 'not_found'.
C21_AbsenceIsNotFound ==
    (tool_out = <<>> /\ tool_req.ok) =>
        \A r \in {Handler(tool_req.name, CallArgs(tool_req), slot_booked, patients, TRUE)} :
            /\ (AvailabilityAbsent \/ BookingAbsent) => r.handler.value.status = "not_found"
            /\ (tool_req.name = "filter_doctors" /\ r.handler.value.status # "success")
                  => r.handler.value.status = "not_found"

\* the call passes a malformed date or a malformed time to a tool that takes one
MalformedInput ==
    \/ /\ tool_req.name \in {"get_doctor_availability", "book_appointment", "recommend_alternatives"}
       /\ Truthy(Params.date) /\ ~DateOk(Params.date)
    \/ /\ tool_req.name = "book_appointment"
       /\ Truthy(Params.time_range) /\ ParseTimeRange(Params.time_range).kind = "raise"
    \/ /\ tool_req.name = "recommend_alternatives"
       /\ \/ Truthy(Params.start_time) /\ ParseClock(Params.start_time).kind = "raise"
          \/ Truthy(Params.end_time) /\ ParseClock(Params.end_time).kind = "raise"

\* what recommend_alternatives returns is a list of candidates, what every
\* other return and every failure gives is a dict
IsList(out) == tool_req.name = "recommend_alternatives" /\ out.service.kind = "return"

\* the tool result is a structured payload with status 'error' and a message
IsErrorPayload(out) ==
    /\ ~IsList(out)
    /\ {"status", "message"} \subseteq DOMAIN out.handler.value
    /\ out.handler.value.status = "error"
    /\ out.handler.value.message \notin {None, ""}

\* C22: a malformed date or a malformed time range passed to
\* get_doctor_availability, book_appointment or recommend_alternatives gives
\* a structured payload with status 'error' and a message as the tool
\* result, and no slot and no patient record is changed.
C22_InputErrorsReported ==
    [][(tool_out = <<>> /\ tool_out' # <<>> /\ MalformedInput) =>
          /\ IsErrorPayload(tool_out')
          /\ slot_booked' = slot_booked
          /\ patients' = patients]_vars

\* the booking under examination reaches the database and finds no exact
\* open slot: no doctor of the name, or one doctor and a date that is
\* malformed or has no unbooked slot with the requested start and end
BookingMiss ==
    /\ tool_req.name = "book_appointment" /\ tool_req.ok
    /\ ParseTimeRange(Params.time_range).kind = "ok"
    /\ \/ Named(Params.doctor_name) = {}
       \/ /\ Cardinality(Named(Params.doctor_name)) = 1
          /\ \/ ~DateOk(Params.date)
             \/ \A d \in Named(Params.doctor_name) :
                   OpenMatching(d, ParseDate(Params.date), ParseTimeRange(Params.time_range).start_time,
                                ParseTimeRange(Params.time_range).end_time) = {}

\* C23: when book_appointment finds no exact open slot, its outcome carries
\* as alternatives exactly the sequence recommend_alternatives returns for
\* the same doctor, date and requested window in the same database state,
\* and the call leaves every booked flag and the patient records unchanged.
C23_MissCarriesAlternatives ==
    [][(tool_out = <<>> /\ tool_out' # <<>> /\ BookingMiss) =>
          \E alt \in {recommend_alternatives(slot_booked, Params.doctor_name, Params.date,
                                             ParseTimeRange(Params.time_range).start_time)} :
              /\ alt.kind = "return"
              /\ tool_out'.service.kind = "return"
              /\ "alternatives" \in DOMAIN tool_out'.handler.value
              /\ tool_out'.handler.value.alternatives = alt.value
              /\ slot_booked' = slot_booked
              /\ patients' = patients]_vars

\* a booking of a slot that is taken came back with alternatives
C23_Witness ==
    /\ tool_out # <<>>
    /\ tool_req.name = "book_appointment" /\ tool_req.ok
    /\ Params.doctor_name = "Dr. Rao" /\ Params.date = "2025-01-05"
    /\ Params.time_range = "10:00-10:30"
    /\ slot_booked[1] /\ ~slot_booked[3]
    /\ tool_out.service.kind = "return"
    /\ "alternatives" \in DOMAIN tool_out.handler.value
    /\ Len(tool_out.handler.value.alternatives) = 3
    /\ tool_out.handler.value.alternatives[1].slotId = 4
    /\ patients = SeedPatients(slot_booked)

\* the doctors of the specialities whose name contains the text, and the
\* doctors of the speciality whose name is the close match of the text
DirectDoctors(text) == { d \in DoctorIds : Doctor[d].speciality_id \in SpecialityILike(text) }
FuzzyDoctors(text) ==
    IF CloseMatch(text).kind = "one"
    THEN { d \in DoctorIds : Doctor[d].speciality_id = CloseMatch(text).id }
    ELSE {}

\* the doctors a filter_doctors payload lists
Listed(v) == { v.doctors[i].doctorId : i \in 1..Len(v.doctors) }

\* C24: filter_doctors consults the fuzzy match only when the substring
\* match returns no doctor.  With a direct match the result lists the
\* directly matched doctors; without one, the doctors of the speciality
\* that is the close match, with status 'success'; and status 'not_found'
\* with an empty list comes exactly when both yield no doctor.
C24_FuzzyFallback ==
    (tool_out # <<>> /\ tool_req.name = "filter_doctors" /\ tool_req.ok) =>
        \E v \in {tool_out.handler.value}, text \in {Params.specialty} :
            /\ DirectDoctors(text) # {} =>
                  v.status = "success" /\ Listed(v) = DirectDoctors(text)
            /\ (DirectDoctors(text) = {} /\ FuzzyDoctors(text) # {}) =>
                  v.status = "success" /\ Listed(v) = FuzzyDoctors(text)
            /\ (DirectDoctors(text) = {} /\ FuzzyDoctors(text) = {}) <=>
                  (v.status = "not_found" /\ v.doctors = <<>>)
            /\ v.status = "success" => v.total = Cardinality(Listed(v)) /\ v.total = Len(v.doctors)

\* 'Cardiologist' is contained in no speciality name and gave the doctors
\* of Cardiology
C24_Witness ==
    /\ tool_out # <<>>
    /\ tool_req.name = "filter_doctors" /\ tool_req.ok
    /\ Params.specialty = "Cardiologist"
    /\ DirectDoctors("Cardiologist") = {}
    /\ tool_out.handler.value.status = "success"
    /\ Listed(tool_out.handler.value) = {1, 2, 4}

----------------------------------------------------------------------------
(***************************************************************************)
(* What one successful booking changes                                     *)
(***************************************************************************)
\* slot s is the slot of the doctor, date and times that call b asks for
IsRequestedSlot(b, s) ==
    LET p == BookParams(bk_args[b])
        t == ParseTimeRange(p.time_range)
    IN  /\ Doctor[SlotDoctor(s)].name = p.doctor_name
        /\ SlotDate(s) = ParseDate(p.date)
        /\ TimeSlots[s].start_time = t.start_time
        /\ TimeSlots[s].end_time = t.end_time

\* the columns of the last patient row, the generated key left out
NewRow(rows) ==
    [c \in {"user_id", "name", "email", "phone", "slot_id"} |-> rows[Len(rows)][c]]

\* C25: a successful book_appointment books exactly the matching unbooked
\* slot.  The slot it looks up is the one of the requested doctor, date,
\* start and end time and is unbooked when looked up; its commit leaves
\* that slot booked and adds exactly one patient record, bound to that slot
\* and carrying the given user id, name, email and phone; every other slot
\* and every earlier patient record is unchanged.
C25_BooksExactlyTheSlot ==
    [][\A b \in Bookings :
         /\ (bk_pc[b] = "lookup" /\ bk_pc'[b] = "commit") =>
               /\ IsRequestedSlot(b, bk_sess'[b].slot)
               /\ ~slot_booked[bk_sess'[b].slot]
         /\ (bk_pc[b] = "commit" /\ bk_pc'[b] = "refresh") =>
               LET s == bk_sess[b].slot
                   p == BookParams(bk_args[b])
               IN  /\ IsRequestedSlot(b, s)
                   /\ slot_booked'[s]
                   /\ \A x \in SlotIds \ {s} : slot_booked'[x] = slot_booked[x]
                   /\ Len(patients') = Len(patients) + 1
                   /\ SubSeq(patients', 1, Len(patients)) = patients
                   /\ NewRow(patients') =
                         [user_id |-> p.user_id, name |-> p.patient_name,
                          email |-> p.email, phone |-> p.phone, slot_id |-> s]
         /\ (bk_pc[b] = "refresh" /\ bk_pc'[b] = "returned") =>
               /\ bk_out'[b].status = "success"
               /\ bk_out'[b].appointment.slotId = bk_sess[b].slot
    ]_vars

\* user u1 has booked slot 1 of Dr. Rao on 2025-01-05 at 10:00-10:30: the
\* slot is booked, the new row is u1's, the seeded row of slot 3 is still
\* the first one and slot 2 is still open
C25_Witness ==
    \E b \in Bookings :
        /\ Succeeded(b)
        /\ BookParams(bk_args[b]).user_id = "u1"
        /\ bk_out[b].appointment.slotId = 1
        /\ slot_booked[1] /\ ~slot_booked[2]
        /\ Len(patients) = Len(SeedPatients(InitialBooked)) + 1
        /\ NewRow(patients).user_id = "u1" /\ NewRow(patients).slot_id = 1
        /\ SubSeq(patients, 1, Len(patients) - 1) = SeedPatients(InitialBooked)

----------------------------------------------------------------------------
(***************************************************************************)
(* The appointment book only grows                                         *)
(***************************************************************************)
ReadOnlyTools ==
    {"get_doctors", "filter_doctors", "get_doctor_availability", "recommend_alternatives"}

\* C26: booking state is monotonic.  Whatever tool is called, with whatever
\* arguments and outcome, a booked slot stays booked and every patient
\* record stays in place with the same contents; a call of get_doctors,
\* filter_doctors, get_doctor_availability or recommend_alternatives leaves
\* slots and patient records exactly as they were.
C26_BookingStateMonotonic ==
    [][/\ \A s \in SlotIds : slot_booked[s] => slot_booked'[s]
       /\ Len(patients') >= Len(patients)
       /\ SubSeq(patients', 1, Len(patients)) = patients
       /\ (tool_out = <<>> /\ tool_out' # <<>> /\ tool_req.name \in ReadOnlyTools) =>
             /\ slot_booked' = slot_booked
             /\ patients' = patients
    ]_vars

\* a booking went through on a calendar that had slot 3 booked and slot 1
\* open: slot 3 is still booked and its record is still the first one
C26_Witness ==
    /\ tool_out # <<>>
    /\ tool_req.name = "book_appointment"
    /\ tool_out.handler.value.status = "success"
    /\ slot_booked[1] /\ slot_booked[3]
    /\ Len(patients) = 2
    /\ patients[1] = SeedPatients(InitialBooked)[1]
    /\ patients[2].slot_id = 1

----------------------------------------------------------------------------
(***************************************************************************)
(* Turns of one user on the shared history                                 *)
(***************************************************************************)
\* "messages" of the payload of turn t's next request: the list the store
\* holds for the user, as it is at the time of the request
ModelInput(t) == user_history[turn_user[t]]

\* the messages turn t has put on the history so far: the user's message,
\* then what _call_openai appended
OwnMessages(t) ==
    <<[role |-> "user", content |-> UserMessage(t)]>>
    \o [k \in 1..Len(SelectSeq(turn_events[t], LAMBDA e : e.ev = "append")) |->
          SelectSeq(turn_events[t], LAMBDA e : e.ev = "append")[k].msg]

InProgress(t) == turn_pc[t] \notin {"idle", "done"}

\* C27: concurrent turns for the same user id are not serialized and race
\* on the shared history.  A request is taken up whatever another turn of
\* the same user is doing, and the input of a turn's next model call holds
\* every message another turn of that user has appended so far, so a turn's
\* own messages need not be contiguous in the history.
C27_SameUserTurnsRace ==
    \A t \in TurnIds :
        /\ turn_pc[t] = "idle" => \A u \in UserIds(t) : ENABLED ProcessChat(t, u)
        /\ turn_pc[t] = "await_model" =>
              \A o \in TurnIds \ {t} :
                  turn_user[o] = turn_user[t] =>
                      \A k \in 1..Len(OwnMessages(o)) :
                          \E i \in 1..Len(ModelInput(t)) : ModelInput(t)[i] = OwnMessages(o)[k]

\* both turns are u1's and in progress; the history holds t1's user message,
\* then t2's user message, then the tool-call message and a tool result of
\* t1, and behind them the reply to t2's first model call, which was made
\* with all of them in its input
C27_Witness ==
    /\ turn_user["t1"] = "u1" /\ turn_user["t2"] = "u1"
    /\ InProgress("t1") /\ InProgress("t2")
    /\ Len(OwnMessages("t1")) >= 3 /\ Len(OwnMessages("t2")) = 2
    /\ Len(turn_events["t2"]) = 2
    /\ turn_events["t2"][1].ev = "model" /\ turn_events["t2"][2].ev = "append"
    /\ \E i, j, k, l, n \in 1..Len(user_history["u1"]) :
          /\ i < j /\ j < k /\ k < l /\ l < n
          /\ user_history["u1"][i] = OwnMessages("t1")[1]
          /\ user_history["u1"][j] = OwnMessages("t2")[1]
          /\ user_history["u1"][k] = OwnMessages("t1")[2]
          /\ "tool_calls" \in DOMAIN user_history["u1"][k]
          /\ user_history["u1"][l] = OwnMessages("t1")[3]
          /\ user_history["u1"][l].role = "function"
          /\ user_history["u1"][n] = OwnMessages("t2")[2]
          /\ "tool_calls" \notin DOMAIN user_history["u1"][n]

----------------------------------------------------------------------------
(***************************************************************************)
(* How a turn ends                                                         *)
(***************************************************************************)
\* a reply that requests no tool: neither tool_calls nor a function_call
WithoutToolCalls(m) == "tool_calls" \notin DOMAIN m /\ "function_call" \notin DOMAIN m

InToolRound(t) == turn_pc[t] \in {"tool_calls", "tool_result", "function_call", "function_result"}

\* the value a turn returns is the error payload
IsFailure(ret) == ret.type = "dict" /\ ret.value = AssistantUnavailable

\* C28: a turn returns to the caller only when the model returned a message
\* without tool calls or when a failure produced the error payload, and
\* a tool round is left only towards the next model call (or by such a
\* failure), however many rounds there have been; so a turn ends once the
\* model returns a message without tool calls.
C28_ReturnsOnlyWithoutToolCalls ==
    [][\A t \in TurnIds :
          /\ (InProgress(t) /\ turn_pc'[t] = "done") =>
                \/ IsFailure(turn_ret'[t])
                \/ turn_pc[t] = "returning" /\ WithoutToolCalls(turn_msg[t])
          /\ (InToolRound(t) /\ turn_pc'[t] \notin {"tool_calls", "tool_result",
                                                   "function_call", "function_result"}) =>
                \/ turn_pc'[t] = "await_model"
                \/ turn_pc'[t] = "done" /\ IsFailure(turn_ret'[t])
      ]_vars

----------------------------------------------------------------------------
(***************************************************************************)
(* Tool results that report an error                                       *)
(***************************************************************************)
\* an entry of a turn's log: a dispatched tool answered 'error' or 'not_found'
ErrorResult(ev) == ev.ev = "dispatch" /\ ev.result.status \in {"error", "not_found"}

\* position j of log e is the append of the tool-result message of the
\* dispatch at position i
ResultAppended(e, i, j) ==
    /\ j <= Len(e)
    /\ e[j].ev = "append"
    /\ e[j].msg.role = "function"
    /\ e[j].msg.name = e[i].name
    /\ e[j].msg.content = json_dumps(e[i].result)

----------------------------------------------------------------------------
(***************************************************************************)
(* The session of a handler call                                           *)
(***************************************************************************)
Running(b) == bk_pc[b] \notin {"idle", "done"}

\* C30: every handler call acquires one backend session and releases it on
\* every exit path.  A call holds an open session exactly while it runs;
\* once the handler has returned, with a booking, with the slot-not-
\* available payload or with the payload that stands for an exception of
\* the service call, its session is closed and holds nothing pending, so no
\* session is open between tool calls.
C30_SessionReleased ==
    /\ \A b \in Bookings :
          /\ Running(b) <=> bk_sess[b].open
          /\ bk_pc[b] = "done" => bk_sess[b] = ClosedSession
    /\ Cardinality({ b \in Bookings : bk_sess[b].open })
          = Cardinality({ b \in Bookings : Running(b) })

\* one call has returned a booking and another one the payload of an
\* exception raised by commit(), after it had added its changes to its
\* session: both sessions are closed
C30_Witness ==
    \E b, c \in Bookings :
        /\ Succeeded(b)
        /\ bk_pc[c] = "done" /\ bk_out[c] = UniformError
        /\ MissingFields(bk_args[c]) # <<>>
        /\ ParseTimeRange(BookParams(bk_args[c]).time_range).kind = "ok"
        /\ ~bk_sess[b].open /\ ~bk_sess[c].open

----------------------------------------------------------------------------
(***************************************************************************)
(* What recommend_alternatives may recommend                               *)
(***************************************************************************)
\* C31: every candidate recommend_alternatives returns, whatever tier it
\* comes from, is a slot that is unbooked in the database the call reads
\* and that belongs to a doctor of the requested doctor's speciality, and
\* the candidate names that slot's doctor and speciality; a booked slot is
\* never recommended.
C31_OnlyOpenSameSpeciality ==
    Returned =>
        \A i \in 1..Len(rec_out.value) :
            LET s == rec_out.value[i].slotId
            IN  /\ s \in SlotIds
                /\ ~slot_booked[s]
                /\ Cardinality(NamedDoctors) = 1
                /\ Doctor[SlotDoctor(s)].speciality_id = Doctor[TheDoctor].speciality_id
                /\ rec_out.value[i].doctor = Doctor[SlotDoctor(s)].name
                /\ rec_out.value[i].speciality = Speciality[Doctor[TheDoctor].speciality_id]

\* Dr. Rao is fully booked on the 5th and so is slot 6 of Dr. Sen: the
\* only candidate is the open slot 5 of Dr. Sen, a cardiologist as well
C31_Witness ==
    /\ Returned
    /\ rec_req.doctor_name = "Dr. Rao" /\ RequestedDay = 5
    /\ rec_out.tier = 2
    /\ slot_booked[6] /\ ~slot_booked[5] /\ ~slot_booked[11]
    /\ ReturnedIds = <<5>>
    /\ rec_out.value[1].doctor = "Dr. Sen"

----------------------------------------------------------------------------
(***************************************************************************)
(* get_doctor_availability without booked slots                            *)
(***************************************************************************)
\* the call answered is get_doctor_availability with include_booked absent
\* or coerced to false
OpenOnlyCall ==
    /\ tool_out # <<>>
    /\ tool_req.name = "get_doctor_availability"
    /\ ~Params.include_booked

\* the availability entries of a tool result; none for a payload without
\* the key
Entries(v) == IF "availability" \in DOMAIN v THEN v.availability ELSE <<>>

\* the slots a tool result lists
ListedSlots(v) ==
    UNION { { Entries(v)[i].slots[k].slotId : k \in 1..Len(Entries(v)[i].slots) }
              : i \in 1..Len(Entries(v)) }

\* no booked slot is listed, and no date is listed without a slot
OpenSlotsOnly(v) ==
    /\ \A s \in ListedSlots(v) : ~slot_booked[s]
    /\ \A i \in 1..Len(Entries(v)) :
          /\ Entries(v)[i].slots # <<>>
          /\ \A k \in 1..Len(Entries(v)[i].slots) : ~Entries(v)[i].slots[k].isBooked

\* C32 as stated: with include_booked absent or false, get_doctor_availability
\* never returns a booked slot and omits dates left with no slot; its status
\* is 'success' exactly when at least one slot is returned, and 'not_found'
\* otherwise.
C32_SuccessOrNotFound ==
    OpenOnlyCall =>
        \E v \in {tool_out.handler.value} :
            /\ OpenSlotsOnly(v)
            /\ v.status = "success" <=> ListedSlots(v) # {}
            /\ ListedSlots(v) = {} => v.status = "not_found"

\* the call could not be answered from the tables: the date does not parse,
\* or the service call raised
Unanswerable ==
    \/ Truthy(Params.date) /\ ~DateOk(Params.date)
    \/ tool_out.service.kind = "raise"

\* C32 (amended): with include_booked absent or false, get_doctor_availability
\* never returns a booked slot and omits dates left with no slot; its status
\* is 'success' exactly when at least one slot is returned; when none is
\* returned the status is 'error' for a date that does not parse or a
\* service call that raised, and 'not_found' otherwise.
C32_OpenSlotsOnly ==
    OpenOnlyCall =>
        \E v \in {tool_out.handler.value} :
            /\ OpenSlotsOnly(v)
            /\ v.status = "success" <=> ListedSlots(v) # {}
            /\ ListedSlots(v) = {} =>
                  v.status = (IF Unanswerable THEN "error" ELSE "not_found")
            /\ (v.status = "success" /\ Cardinality(Named(Params.doctor_name)) = 1) =>
                  ListedSlots(v) =
                     { s \in SlotIds :
                         /\ SlotDoctor(s) \in Named(Params.doctor_name)
                         /\ Truthy(Params.date) => SlotDate(s) = ParseDate(Params.date)
                         /\ ~slot_booked[s] }

\* Dr. Rao's only slot on the 7th is booked and so is slot 3 on the 5th; asked
\* without a date and with include_booked 'no', the call lists the 5th with
\* its three open slots and leaves out the 7th
C32_Witness ==
    /\ OpenOnlyCall
    /\ Params.doctor_name = "Dr. Rao" /\ ~Truthy(Params.date)
    /\ "include_booked" \in DOMAIN tool_req.args /\ tool_req.args.include_booked = "no"
    /\ slot_booked[3] /\ slot_booked[7]
    /\ tool_out.handler.value.status = "success"
    /\ Len(tool_out.handler.value.availability) = 1
    /\ ListedSlots(tool_out.handler.value) = {1, 2, 4}

----------------------------------------------------------------------------
(***************************************************************************)
(* The history during a turn                                               *)
(***************************************************************************)
\* list a is the beginning of list b
StartsWith(b, a) == Len(a) <= Len(b) /\ SubSeq(b, 1, Len(a)) = a

\* C33: within a turn the stored history of a user only grows by appending.
\* Every step of process_chat and _call_openai leaves each user's history
\* as it was or longer with the old history as its beginning, and a step
\* that ends the turn with the error payload leaves the histories exactly as
\* they are: nothing the turn appended before is taken back.
C33_HistoryOnlyGrows ==
    [][/\ \A u \in DOMAIN user_history :
             /\ u \in DOMAIN user_history'
             /\ StartsWith(user_history'[u], user_history[u])
       /\ \A t \in TurnIds :
             (InProgress(t) /\ turn_pc'[t] = "done" /\ IsFailure(turn_ret'[t])) =>
                 user_history' = user_history
      ]_vars

\* a turn appended the user's message, the model's tool-call message and
\* two tool results, then the next model call failed: the turn returned the
\* error payload and all four messages are still in the history, in order
C33_Witness ==
    \E t \in TurnIds :
        /\ turn_pc[t] = "done" /\ IsFailure(turn_ret[t])
        /\ Len(OwnMessages(t)) = 4
        /\ "tool_calls" \in DOMAIN OwnMessages(t)[2]
        /\ OwnMessages(t)[3].role = "function" /\ OwnMessages(t)[4].role = "function"
        /\ user_history[turn_user[t]] = <<SystemMessage>> \o OwnMessages(t)

----------------------------------------------------------------------------
(***************************************************************************)
(* Calls of tools FUNCTION_MAP does not have                               *)
(***************************************************************************)
\* a requested call that names a tool FUNCTION_MAP does not have
NamesUnknownTool(tool_call) ==
    /\ FnInfo(tool_call) # <<>>
    /\ Get(FnInfo(tool_call), "name", None) \notin FunctionNames

\* turn t is at a call of the round that names an unknown tool
AtUnknownCall(t) ==
    /\ turn_pc[t] = "tool_calls"
    /\ turn_idx[t] <= Len(Calls(t))
    /\ NamesUnknownTool(ToolCall(t))

\* turn t takes the step
Steps(t) ==
    \/ turn_pc'[t] # turn_pc[t]
    \/ turn_idx'[t] # turn_idx[t]
    \/ turn_events'[t] # turn_events[t]

\* the reply turn t receives in the step is a legacy function_call naming an
\* unknown tool
UnknownLegacyReply(t) ==
    /\ turn_pc[t] = "await_model"
    /\ Len(turn_events'[t]) > Len(turn_events[t])
    /\ \E m \in {turn_events'[t][Len(turn_events[t]) + 1].msg} :
          /\ "tool_calls" \notin DOMAIN m
          /\ "function_call" \in DOMAIN m
          /\ Get(m.function_call, "name", None) \notin FunctionNames

\* C34: a tool call naming a tool that is not in FUNCTION_MAP is never
\* executed and produces no tool-result message.  In a tool_calls reply the
\* turn steps over it, changing neither the history nor the database, and
\* goes on with the next call of the round; a legacy function_call reply
\* naming such a tool ends the turn with the reply's content (the empty
\* string when absent) appended as the final message.
C34_UnknownToolSkipped ==
    [][\A t \in TurnIds :
          /\ (AtUnknownCall(t) /\ Steps(t)) =>
                /\ turn_pc'[t] = "tool_calls"
                /\ turn_idx'[t] = turn_idx[t] + 1
                /\ turn_events'[t] = turn_events[t]
                /\ UNCHANGED <<user_history, slot_booked, patients>>
          /\ UnknownLegacyReply(t) =>
                /\ turn_pc'[t] = "returning"
                /\ user_history'[turn_user[t]] =
                      Append(user_history[turn_user[t]],
                             [role |-> "assistant", content |-> ModelText(turn_msg'[t])])
                /\ UNCHANGED <<slot_booked, patients>>
      ]_vars


----------------------------------------------------------------------------
(***************************************************************************)
(* Booking under a name two doctors carry                                  *)
(***************************************************************************)
\* call b has been dispatched for a name that is on more than one Doctor row
AmbiguousName(b) ==
    /\ bk_args[b] # <<>>
    /\ Cardinality(Named(BookParams(bk_args[b]).doctor_name)) > 1

\* the slots of the doctors that carry the name call b asks for
SlotsOfNamed(b) ==
    { s \in SlotIds : SlotDoctor(s) \in Named(BookParams(bk_args[b]).doctor_name) }

\* C35: when two doctors share the requested name, book_appointment
\* dispatched through FUNCTION_MAP does not resolve the name to one of them:
\* no step of the call changes a slot or the patient table, the call never
\* holds a slot or a pending patient record in its session, it takes neither
\* the "slot not available" branch nor the commit, and the result it ends
\* with is the uniform error payload of _run_async_db_call.
C35_SharedNameBooksNothing ==
    [][\A b \in Bookings :
          (AmbiguousName(b)' /\ bk_pc'[b] # bk_pc[b]) =>
             /\ UNCHANGED <<slot_booked, patients>>
             /\ bk_pc'[b] \in {"lookup", "raised", "done"}
             /\ bk_sess'[b].slot = 0
             /\ bk_sess'[b].dirty_slot = 0
             /\ bk_sess'[b].pending = <<>>
             /\ bk_pc'[b] = "done" => bk_out'[b] = UniformError
      ]_vars

\* a call for "Dr. Twin" at an hour one of the two has open is over: the
\* result is the uniform error, that slot is still open and no patient
\* record is bound to a slot of either doctor
C35_Witness ==
    \E b \in Bookings :
       /\ AmbiguousName(b)
       /\ bk_pc[b] = "done"
       /\ bk_out[b] = UniformError
       /\ \E s \in SlotsOfNamed(b) :
             /\ DoctorAvailability[TimeSlots[s].availability_id].available_date
                   = ParseDate(BookParams(bk_args[b]).date)
             /\ TimeSlots[s].start_time = ParseTimeRange(BookParams(bk_args[b]).time_range).start_time
             /\ ~slot_booked[s]
       /\ \A s \in SlotsOfNamed(b) : RowsOfSlot(s) = {}

====
